---- MODULE Spec2Model ----
(***************************************************************************)
(* Model of the generic SNMP module: the OID utilities, the feedback/OID   *)
(* tracker, the single-flight priority request queue in front of the       *)
(* device session, and the value cache with its throttled feedback check.  *)
(* Strings are sequences of one-character strings so that trimOid and      *)
(* isValidSnmpOid are computed character by character as the code does.    *)
(***************************************************************************)
EXTENDS Integers, Sequences, FiniteSets, TLC

(***************************************************************************)
(* Bounds of the model.                                                    *)
(***************************************************************************)
MaxTasks == 3
MaxReads == 2

(***************************************************************************)
(* Strings used as inputs.                                                 *)
(***************************************************************************)
OID_A == <<"1", ".", "3">>
OID_B == <<"1", ".", "3", ".", "6">>
OID_C == <<"2", ".", "0">>
OID_D == <<"0", ".", "1", "0">>
RAW_DOT_B == <<".", ".", "1", ".", "3", ".", "6">>
RAW_SPACE_C == <<" ", "2", ".", "0", " ">>
RAW_SPACE_DOT_A == <<" ", ".", "1", ".", "3">>
RAW_BAD == <<"b", "a", "d">>
RAW_SINGLE_ARC == <<"1">>
RAW_LEADING_ZERO == <<"1", ".", "0", "3">>
RAW_EMPTY == << >>

Digits == {"0", "1", "2", "3", "4", "5", "6", "7", "8", "9"}
WhiteSpace == {" ", "\t", "\n"}

(***************************************************************************)
(* oidUtils: trimOid and isValidSnmpOid.                                   *)
(***************************************************************************)
RECURSIVE stripLeadingDots(_)
stripLeadingDots(s) ==
    IF Len(s) > 0 /\ Head(s) = "." THEN stripLeadingDots(Tail(s)) ELSE s

RECURSIVE trimStart(_)
trimStart(s) ==
    IF Len(s) > 0 /\ Head(s) \in WhiteSpace THEN trimStart(Tail(s)) ELSE s

RECURSIVE trimEnd(_)
trimEnd(s) ==
    IF Len(s) > 0 /\ s[Len(s)] \in WhiteSpace
    THEN trimEnd(SubSeq(s, 1, Len(s) - 1))
    ELSE s

trimOid(oid) == trimEnd(trimStart(stripLeadingDots(oid)))

\* an arc that may start with a zero: \d+
isArcWithLeadingZero(a) ==
    /\ Len(a) > 0
    /\ \A i \in 1..Len(a) : a[i] \in Digits

\* One arc of the regular expression: 0 | [1-9]\d*
isArc(a) ==
    /\ Len(a) > 0
    /\ \A i \in 1..Len(a) : a[i] \in Digits
    /\ (a[1] = "0" => Len(a) = 1)

\* (\.(0|[1-9]\d*))+ matched against s up to its end
RECURSIVE isArcTail(_)
isArcTail(s) ==
    /\ Len(s) >= 2
    /\ s[1] = "."
    /\ \E n \in 2..Len(s) :
          /\ isArc(SubSeq(s, 2, n))
          /\ (n = Len(s) \/ isArcTail(SubSeq(s, n + 1, Len(s))))

isValidSnmpOid(value) ==
    /\ Len(value) >= 1
    /\ value[1] \in {"0", "1", "2"}
    /\ isArcTail(Tail(value))

\* the guard "!isValidSnmpOid(oid) || oid.length == 0" of every entry point
isAcceptedOid(oid) == ~(~isValidSnmpOid(oid) \/ Len(oid) = 0)

(***************************************************************************)
(* State.                                                                  *)
(***************************************************************************)
VARIABLES
    phase,               \* host lifecycle: "constructed", "running", "destroyed"
    session,             \* this.session: "null", "open" or "closed"
    queue,               \* snmpQueue: tasks not yet started, in dispatch order
    pending,             \* snmpQueue: number of started, unfinished tasks
    intervalCount,       \* snmpQueue: tasks started in the current interval
    outstanding,         \* tasks whose session call has not called back yet
    promise,             \* promise[id]: the state of the promise of call id
    dispatched,          \* the task the queue started last, << >> before the first
    oidValues,           \* this.oidValues: OID -> cached varbind
    feedbackIdsToCheck,  \* this.feedbackIdsToCheck
    checkArmed,          \* throttledFeedbackIdCheck has a trailing call scheduled
    definitionsArmed,    \* debouncedUpdateDefinitions has a call scheduled
    lastLog,             \* level of the last message handleVarbind logged
    lastBatch,           \* ids of the last checkFeedbacksById(...) call
    arrival,             \* how the last list of varbinds came in: get, walk, trap
    delivered,           \* ids of the requests in flight that have changed the cache
    oidToFeedbacks,      \* oidTracker.oidToFeedbacks: OID -> set of ids
    feedbackToOid,       \* oidTracker.feedbackToOid: id -> OID
    pollGroup,           \* oidTracker's poll group: OID -> set of requester ids
    pollTimer,           \* this.pollTimer is set: a call of pollOids is scheduled
    listener,            \* the trap receiver and its sockets: "none", "binding",
                         \* "open", "failed", "closed"
    batchGet,            \* throttledBatchGet: "idle", "window" (timer runs), "armed"
    pendingOids,         \* this.pendingOids, in insertion order
    timers,              \* timeouts set by pollOids, neither expired nor cleared
    sessions,            \* sessions created and not closed
    receivers,           \* trap receivers created and not closed
    createListenerPromise, \* the promise of the last createListener(): "none",
                         \* "pending", "resolved", "rejected"
    wrapper,             \* the SharedUDPSocketWrapper: "none", "constructed", "closed"
    allowedAddress,      \* its field allowedAddress
    sharedSocketListeners, \* the 'message' listeners of the shared socket
    datagrams,           \* the datagrams the shared socket received, each with
                         \* whether the wrapper emitted 'message' for it
    argument,            \* the string a function of oidUtils is applied to
    results              \* what its successive applications returned

queueVars == <<queue, pending, intervalCount, outstanding, promise, dispatched>>
cacheVars == <<oidValues, feedbackIdsToCheck, checkArmed, definitionsArmed, lastLog>>
observed == <<lastBatch, arrival, delivered>>
trackerVars == <<oidToFeedbacks, feedbackToOid, pollGroup>>
wrapperVars == <<wrapper, allowedAddress, sharedSocketListeners, datagrams>>
hostVars == <<pollTimer, listener, batchGet, pendingOids, timers, sessions, receivers,
              createListenerPromise, wrapperVars>>
utilVars == <<argument, results>>
vars == <<phase, session, queue, pending, intervalCount, outstanding, promise,
          dispatched, oidValues, feedbackIdsToCheck, checkArmed,
          definitionsArmed, lastLog, lastBatch, arrival, delivered,
          oidToFeedbacks, feedbackToOid, pollGroup, pollTimer, listener,
          batchGet, pendingOids, timers, sessions, receivers,
          createListenerPromise, wrapper, allowedAddress, sharedSocketListeners,
          datagrams, argument, results>>

EmptyMap == [x \in {} |-> {}]

(***************************************************************************)
(* FeedbackOidTracker.  A tracker value is the pair of its two maps.       *)
(***************************************************************************)
mapDelete(m, k) == [x \in (DOMAIN m) \ {k} |-> m[x]]
mapSet(m, k, v) == [x \in (DOMAIN m) \cup {k} |-> IF x = k THEN v ELSE m[x]]

trackerOf(o2f, f2o) == [oidToFeedbacks |-> o2f, feedbackToOid |-> f2o]

\* removeFeedback that forgets the forward mapping but leaves the id in the set
removeFeedbackKeepsSet(tr, feedbackId) ==
    IF feedbackId \in DOMAIN tr.feedbackToOid
    THEN [tr EXCEPT !.feedbackToOid = mapDelete(@, feedbackId)]
    ELSE tr

\* removeFeedback without the clean-up of empty sets
removeFeedbackLeavesEmptySet(tr, feedbackId) ==
    IF feedbackId \in DOMAIN tr.feedbackToOid
    THEN LET oldOid == tr.feedbackToOid[feedbackId]
         IN  [oidToFeedbacks |->
                  IF oldOid \in DOMAIN tr.oidToFeedbacks
                  THEN mapSet(tr.oidToFeedbacks, oldOid,
                              tr.oidToFeedbacks[oldOid] \ {feedbackId})
                  ELSE tr.oidToFeedbacks,
              feedbackToOid |-> mapDelete(tr.feedbackToOid, feedbackId)]
    ELSE tr

removeFeedbackOp(tr, feedbackId) ==
    IF feedbackId \in DOMAIN tr.feedbackToOid
    THEN LET oldOid == tr.feedbackToOid[feedbackId]
             o2f == tr.oidToFeedbacks
             o2fAfter ==
                 IF oldOid \in DOMAIN o2f
                 THEN LET feedbackSet == o2f[oldOid] \ {feedbackId}
                      IN  IF Cardinality(feedbackSet) = 0
                          THEN mapDelete(o2f, oldOid)
                          ELSE mapSet(o2f, oldOid, feedbackSet)
                 ELSE o2f
         IN  [oidToFeedbacks |-> o2fAfter,
              feedbackToOid |-> mapDelete(tr.feedbackToOid, feedbackId)]
    ELSE tr

\* addFeedback that validates the trimmed OID and stores the OID as given
addFeedbackStoresRaw(tr, feedbackId, rawOid) ==
    LET removed == removeFeedbackOp(tr, feedbackId)
    IN  IF ~isAcceptedOid(trimOid(rawOid))
        THEN [tracker |-> removed, threw |-> TRUE]
        ELSE LET o2f == removed.oidToFeedbacks
                 members == IF rawOid \in DOMAIN o2f THEN o2f[rawOid] ELSE {}
             IN  [tracker |->
                     [oidToFeedbacks |-> mapSet(o2f, rawOid, members \cup {feedbackId}),
                      feedbackToOid |-> mapSet(removed.feedbackToOid, feedbackId, rawOid)],
                  threw |-> FALSE]

\* addFeedback that does not remove the id's earlier registration first
addFeedbackKeepsOld(tr, feedbackId, rawOid) ==
    LET oid == trimOid(rawOid)
    IN  IF ~isAcceptedOid(oid)
        THEN [tracker |-> tr, threw |-> TRUE]
        ELSE LET o2f == tr.oidToFeedbacks
                 members == IF oid \in DOMAIN o2f THEN o2f[oid] ELSE {}
             IN  [tracker |->
                     [oidToFeedbacks |-> mapSet(o2f, oid, members \cup {feedbackId}),
                      feedbackToOid |-> mapSet(tr.feedbackToOid, feedbackId, oid)],
                  threw |-> FALSE]

\* addFeedback: the tracker it leaves behind and whether it threw
addFeedbackOp(tr, feedbackId, rawOid) ==
    LET removed == removeFeedbackOp(tr, feedbackId)
        oid == trimOid(rawOid)
    IN  IF ~isAcceptedOid(oid)
        THEN [tracker |-> removed, threw |-> TRUE]
        ELSE LET o2f == removed.oidToFeedbacks
                 withKey == IF oid \in DOMAIN o2f THEN o2f ELSE mapSet(o2f, oid, {})
             IN  [tracker |->
                     [oidToFeedbacks |-> mapSet(withKey, oid, withKey[oid] \cup {feedbackId}),
                      feedbackToOid |-> mapSet(removed.feedbackToOid, feedbackId, oid)],
                  threw |-> FALSE]

getFeedbackIdsForOid(o2f, oid) == IF oid \in DOMAIN o2f THEN o2f[oid] ELSE {}

getFeedbacksForOid(o2f, oid) == IF oid \in DOMAIN o2f THEN o2f[oid] ELSE {}

getOidForFeedback(f2o, feedbackId) ==
    IF feedbackId \in DOMAIN f2o THEN f2o[feedbackId] ELSE <<"undefined">>

getAllWatchedOids(o2f) == DOMAIN o2f

getFeedbackCount(f2o) == Cardinality(DOMAIN f2o)

addFeedback(feedbackId, oid) ==
    LET r == addFeedbackOp(trackerOf(oidToFeedbacks, feedbackToOid), feedbackId, oid)
    IN  /\ oidToFeedbacks' = r.tracker.oidToFeedbacks
        /\ feedbackToOid' = r.tracker.feedbackToOid
        /\ UNCHANGED <<phase, session, queueVars, cacheVars, observed, pollGroup, hostVars,
                       utilVars>>

updateFeedback(feedbackId, newOid) ==
    LET r == addFeedbackOp(trackerOf(oidToFeedbacks, feedbackToOid), feedbackId, newOid)
    IN  /\ oidToFeedbacks' = r.tracker.oidToFeedbacks
        /\ feedbackToOid' = r.tracker.feedbackToOid
        /\ UNCHANGED <<phase, session, queueVars, cacheVars, observed, pollGroup, hostVars,
                       utilVars>>

removeFeedback(feedbackId) ==
    LET r == removeFeedbackOp(trackerOf(oidToFeedbacks, feedbackToOid), feedbackId)
    IN  /\ oidToFeedbacks' = r.oidToFeedbacks
        /\ feedbackToOid' = r.feedbackToOid
        /\ UNCHANGED <<phase, session, queueVars, cacheVars, observed, pollGroup, hostVars,
                       utilVars>>

clear ==
    /\ oidToFeedbacks' = EmptyMap
    /\ feedbackToOid' = EmptyMap
    /\ UNCHANGED <<phase, session, queueVars, cacheVars, observed, pollGroup, hostVars,
                   utilVars>>

(***************************************************************************)
(* Value cache: handleVarbind.  A cache state is the record of the fields  *)
(* handleVarbind writes.                                                   *)
(***************************************************************************)
AbsenceTypes == {"NoSuchObject", "NoSuchInstance", "EndOfMibView"}

\* net-snmp's isVarbindError: the varbind carries one of the error types
isVarbindError(varbind) == varbind.type \in AbsenceTypes

cacheOf(values, ids, armed, defs, logged) ==
    [oidValues |-> values, feedbackIdsToCheck |-> ids,
     checkArmed |-> armed, definitionsArmed |-> defs, lastLog |-> logged]

\* handleVarbind without its two guards: it caches whatever it is given
handleVarbindCachesAll(cs, o2f, varbind) ==
    LET ids == cs.feedbackIdsToCheck \cup getFeedbackIdsForOid(o2f, varbind.oid)
    IN  [oidValues |-> mapSet(cs.oidValues, varbind.oid, varbind),
         feedbackIdsToCheck |-> ids,
         checkArmed |-> cs.checkArmed \/ Cardinality(ids) > 0,
         definitionsArmed |-> cs.definitionsArmed \/ varbind.oid \notin DOMAIN cs.oidValues,
         lastLog |-> "info"]

\* handleVarbind that keeps the first value cached for an OID
handleVarbindKeepsFirst(cs, o2f, varbind) ==
    IF isVarbindError(varbind)
    THEN [cs EXCEPT !.lastLog = "warn"]
    ELSE IF varbind.type = "undefined"
    THEN cs
    ELSE IF varbind.oid \in DOMAIN cs.oidValues
    THEN [cs EXCEPT !.lastLog = "info"]
    ELSE handleVarbindCachesAll(cs, o2f, varbind)

\* handleVarbind that marks no watcher dirty
handleVarbindMarksNobody(cs, o2f, varbind) ==
    IF isVarbindError(varbind)
    THEN [cs EXCEPT !.lastLog = "warn"]
    ELSE IF varbind.type = "undefined"
    THEN cs
    ELSE [cs EXCEPT !.oidValues = mapSet(@, varbind.oid, varbind),
                    !.definitionsArmed = @ \/ varbind.oid \notin DOMAIN cs.oidValues,
                    !.lastLog = "info"]

handleVarbind(cs, o2f, varbind) ==
    IF isVarbindError(varbind)
    THEN [cs EXCEPT !.lastLog = "warn"]
    ELSE IF varbind.type # "undefined"
    THEN IF varbind.type \in {"NoSuchObject", "EndOfMibView", "NoSuchInstance"}
         THEN [cs EXCEPT !.lastLog = "debug"]
         ELSE LET isNew == varbind.oid \notin DOMAIN cs.oidValues
                  ids == cs.feedbackIdsToCheck \cup getFeedbackIdsForOid(o2f, varbind.oid)
              IN  [oidValues |-> mapSet(cs.oidValues, varbind.oid, varbind),
                   feedbackIdsToCheck |-> ids,
                   checkArmed |-> IF Cardinality(ids) > 0 THEN TRUE ELSE cs.checkArmed,
                   definitionsArmed |-> IF isNew THEN TRUE ELSE cs.definitionsArmed,
                   lastLog |-> "info"]
    ELSE cs

\* varbinds.forEach((varbind, index) => this.handleVarbind(varbind, index))
RECURSIVE forEachHandleVarbind(_, _, _)
forEachHandleVarbind(cs, o2f, varbinds) ==
    IF varbinds = << >>
    THEN cs
    ELSE forEachHandleVarbind(handleVarbind(cs, o2f, Head(varbinds)), o2f, Tail(varbinds))

\* the trap path drops the first varbind of every notification
processTrapSkipsFirst(cs, o2f, isArray, varbinds) ==
    IF isArray /\ varbinds # << >>
    THEN forEachHandleVarbind(cs, o2f, Tail(varbinds))
    ELSE cs

\* processTrap: the body of its try block
processTrapOp(cs, o2f, isArray, varbinds) ==
    IF isArray THEN forEachHandleVarbind(cs, o2f, varbinds) ELSE cs

\* the get callback's use of the response
getResponseOp(cs, o2f, isArray, varbinds) ==
    IF isArray THEN forEachHandleVarbind(cs, o2f, varbinds) ELSE cs

currentCache ==
    cacheOf(oidValues, feedbackIdsToCheck, checkArmed, definitionsArmed, lastLog)

setCache(after) ==
    \E cs \in {after} :
        /\ oidValues' = cs.oidValues
        /\ feedbackIdsToCheck' = cs.feedbackIdsToCheck
        /\ checkArmed' = cs.checkArmed
        /\ definitionsArmed' = cs.definitionsArmed
        /\ lastLog' = cs.lastLog

processTrap(isArray, varbinds) ==
    /\ phase = "running"
    /\ listener = "open"
    /\ UNCHANGED <<phase, session, queueVars, lastBatch, delivered, trackerVars, hostVars,
                   utilVars>>
    /\ arrival' = IF isArray THEN "trap" ELSE arrival
    /\ setCache(processTrapOp(currentCache, oidToFeedbacks, isArray, varbinds))

\* a throttle whose timer stays armed once it has fired
throttledFeedbackIdCheckStaysArmed ==
    /\ checkArmed
    /\ lastBatch' = feedbackIdsToCheck
    /\ feedbackIdsToCheck' = {}
    /\ checkArmed' = TRUE
    /\ UNCHANGED <<phase, session, queueVars, oidValues, definitionsArmed, lastLog,
                   arrival, delivered, trackerVars, hostVars, utilVars>>

\* the trailing call of throttledFeedbackIdCheck
throttledFeedbackIdCheck ==
    /\ checkArmed
    /\ lastBatch' = feedbackIdsToCheck
    /\ feedbackIdsToCheck' = {}
    /\ checkArmed' = FALSE
    /\ UNCHANGED <<phase, session, queueVars, oidValues, definitionsArmed, lastLog,
                   arrival, delivered, trackerVars, hostVars, utilVars>>

\* the delayed call of debouncedUpdateDefinitions
debouncedUpdateDefinitions ==
    /\ definitionsArmed
    /\ definitionsArmed' = FALSE
    /\ UNCHANGED <<phase, session, queueVars, oidValues, feedbackIdsToCheck,
                   checkArmed, lastLog, observed, trackerVars, hostVars,
                   utilVars>>

(***************************************************************************)
(* Request queue: new PQueue({ concurrency: 1, interval: 10,               *)
(* intervalCap: 1 }).  A queue state is the record of the queue's fields   *)
(* together with the promises of the calls and the log of started tasks.   *)
(***************************************************************************)
Concurrency == 1
IntervalCap == 1

PriorityGet == 0
PrioritySet == 1
PriorityInform == 2
PriorityTrap == 3

queueOf(q, p, ic, out, pr, d) ==
    [queue |-> q, pending |-> p, intervalCount |-> ic, outstanding |-> out,
     promise |-> pr, dispatched |-> d]

currentQueue == queueOf(queue, pending, intervalCount, outstanding, promise, dispatched)

setQueue(after) ==
    \E qs \in {after} :
        /\ queue' = qs.queue
        /\ pending' = qs.pending
        /\ intervalCount' = qs.intervalCount
        /\ outstanding' = qs.outstanding
        /\ promise' = qs.promise
        /\ dispatched' = qs.dispatched

\* a queue that puts every new task at the end, whatever its priority
enqueueIgnoresPriority(q, task) == Append(q, task)

\* a queue that puts a new task before the pending tasks of equal priority
enqueueBeforeEquals(q, task) ==
    LET before == {i \in 1..Len(q) : q[i].priority > task.priority}
        n == Cardinality(before)
    IN  SubSeq(q, 1, n) \o <<task>> \o SubSeq(q, n + 1, Len(q))

\* PriorityQueue.enqueue: after the last pending task of priority >= the new one
enqueue(q, task) ==
    IF Len(q) > 0 /\ q[Len(q)].priority >= task.priority
    THEN Append(q, task)
    ELSE LET lower == {i \in 1..Len(q) : q[i].priority < task.priority}
             index == IF lower = {} THEN Len(q) + 1
                      ELSE CHOOSE i \in lower : \A j \in lower : i <= j
         IN  SubSeq(q, 1, index - 1) \o <<task>> \o SubSeq(q, index, Len(q))

\* validateVarbinds accepts the list: every varbind's OID is valid after
\* trimming (the values offered here always convert)
validateVarbindsOk(varbinds) ==
    \A i \in 1..Len(varbinds) : isValidSnmpOid(trimOid(varbinds[i].oid))

\* a task that reaches for the session without looking at it first
taskOutcomeNoSessionCheck(task, sess) ==
    IF task.kind \in {"trap", "inform"}
    THEN IF task.isOid /\ ~isValidSnmpOid(trimOid(task.oids[1]))
         THEN "rejected_invalid_oid"
         ELSE IF ~validateVarbindsOk(task.varbinds) THEN "rejected_varbind"
         ELSE "call"
    ELSE "call"

\* a task that sends its notification without validating the enterprise OID
taskOutcomeNoOidCheck(task, sess) ==
    IF sess = "null" THEN "rejected_nosession"
    ELSE IF task.kind \in {"trap", "inform"} /\ ~validateVarbindsOk(task.varbinds)
    THEN "rejected_varbind"
    ELSE "call"

\* what the function given to snmpQueue.add does when it is run: it makes a
\* session call ("call") or rejects at once
taskOutcome(task, sess) ==
    IF task.kind \in {"trap", "inform"}
    THEN IF task.isOid /\ ~isValidSnmpOid(trimOid(task.oids[1]))
         THEN "rejected_invalid_oid"
         ELSE IF sess = "null" THEN "rejected_nosession"
         ELSE IF ~validateVarbindsOk(task.varbinds) THEN "rejected_varbind"
         ELSE "call"
    ELSE IF sess = "null" THEN "rejected_nosession" ELSE "call"

settle(pr, id, status) == [pr EXCEPT ![id] = status]

\* a queue that lets two tasks run at once
doesConcurrentAllowAnotherTwo(qs) == qs.pending < 2

doesConcurrentAllowAnother(qs) == qs.pending < Concurrency

doesIntervalAllowAnother(qs) == qs.intervalCount < IntervalCap

\* a queue that stays counted as busy after a task has failed
nextKeepsPending(qs) == qs

\* PQueue's bookkeeping when a task has finished: one task fewer is pending
next(qs) == [qs EXCEPT !.pending = @ - 1]

\* the one value of a state expression, evaluated once
valueOf(singleton) == CHOOSE v \in singleton : TRUE

\* PQueue tryToStartAnother, followed by the start attempt a task makes when it
\* finishes; with loop it is processQueue's "while (tryToStartAnother())"
RECURSIVE tryToStartAnother(_, _, _)
tryToStartAnother(before, sess, loop) ==
    valueOf({
        IF Len(qs.queue) = 0
        THEN qs
        ELSE IF doesIntervalAllowAnother(qs) /\ doesConcurrentAllowAnother(qs)
        THEN LET task == Head(qs.queue)
                 started == [qs EXCEPT !.queue = Tail(@),
                                       !.pending = @ + 1,
                                       !.intervalCount = @ + 1,
                                       !.dispatched = <<task>>]
                 outcome == taskOutcome(task, sess)
             IN  IF outcome = "call"
                 THEN LET called == [started EXCEPT !.outstanding = @ \cup {task}]
                      IN  IF loop THEN tryToStartAnother(called, sess, TRUE) ELSE called
                 ELSE tryToStartAnother(
                          next([started EXCEPT !.promise = settle(@, task.id, outcome)]),
                          sess, loop)
        ELSE qs
        : qs \in {before}})

\* snmpQueue.add(fn, { priority }): a new pending promise, the task enqueued,
\* one attempt to start
add(qs, sess, task) ==
    LET withPromise == [qs EXCEPT !.promise = Append(@, "pending"),
                                  !.queue = enqueue(@, task)]
    IN  tryToStartAnother(withPromise, sess, FALSE)

\* a call that settles without reaching the queue
settledAtOnce(qs, status) == [qs EXCEPT !.promise = Append(@, status)]

\* the session's callback has run and the task's promise has settled
finish(qs, sess, task, status) ==
    tryToStartAnother(
        next([qs EXCEPT !.outstanding = @ \ {task},
                        !.promise = settle(@, task.id, status)]),
        sess, FALSE)

\* a clear() that leaves the waiting tasks in the queue
clearQueueKeepsTasks(qs) == qs

\* snmpQueue.clear()
clearQueue(qs) == [qs EXCEPT !.queue = << >>]

newTask(qs, kind, priority, oids, isOid, varbinds) ==
    [id |-> Len(qs.promise) + 1, kind |-> kind, priority |-> priority,
     oids |-> oids, isOid |-> isOid, varbinds |-> varbinds]

canCall == phase = "running" /\ Len(promise) < MaxTasks

\* the reduce of getOid: trim every OID and drop the invalid ones
RECURSIVE filterOids(_)
filterOids(oids) ==
    IF oids = << >>
    THEN << >>
    ELSE LET oid == trimOid(Head(oids))
         IN  IF ~isValidSnmpOid(oid) \/ Len(oid) = 0
             THEN filterOids(Tail(oids))
             ELSE <<oid>> \o filterOids(Tail(oids))

\* the fields of the module after construction
InitState ==
    /\ phase = "constructed"
    /\ session = "null"
    /\ queue = << >>
    /\ pending = 0
    /\ intervalCount = 0
    /\ outstanding = {}
    /\ promise = << >>
    /\ dispatched = << >>
    /\ oidValues = EmptyMap
    /\ feedbackIdsToCheck = {}
    /\ checkArmed = FALSE
    /\ definitionsArmed = FALSE
    /\ lastLog = "none"
    /\ lastBatch = {}
    /\ arrival = "none"
    /\ delivered = {}
    /\ oidToFeedbacks = EmptyMap
    /\ feedbackToOid = EmptyMap
    /\ pollGroup = EmptyMap
    /\ pollTimer = FALSE
    /\ listener = "none"
    /\ batchGet = "idle"
    /\ pendingOids = << >>
    /\ timers = 0
    /\ sessions = 0
    /\ receivers = 0
    /\ createListenerPromise = "none"
    /\ wrapper = "none"
    /\ allowedAddress = "undefined"
    /\ sharedSocketListeners = {}
    /\ datagrams = << >>

Init ==
    /\ InitState
    /\ argument = << >>
    /\ results = << >>

(***************************************************************************)
(* The calls of the module: getOid, setOid, walk, sendTrap, sendInform.    *)
(***************************************************************************)
getOidOp(qs, sess, oids) ==
    LET valid == filterOids(oids)
    IN  IF Len(valid) = 0
        THEN settledAtOnce(qs, "resolved")
        ELSE add(qs, sess, newTask(qs, "get", PriorityGet, valid, TRUE, << >>))

\* a setOid that hands the OID to the session as it was given
setOidOpSendsRawOid(qs, sess, rawOid, type, value) ==
    LET oid == trimOid(rawOid)
    IN  IF ~isValidSnmpOid(oid) \/ Len(oid) = 0
        THEN settledAtOnce(qs, "rejected_invalid_oid")
        ELSE add(qs, sess, newTask(qs, "set", PrioritySet, <<oid>>, TRUE,
                                   <<[oid |-> rawOid, type |-> type, value |-> value]>>))

setOidOp(qs, sess, rawOid, type, value) ==
    LET oid == trimOid(rawOid)
    IN  IF ~isValidSnmpOid(oid) \/ Len(oid) = 0
        THEN settledAtOnce(qs, "rejected_invalid_oid")
        ELSE add(qs, sess, newTask(qs, "set", PrioritySet, <<oid>>, TRUE,
                                   <<[oid |-> oid, type |-> type, value |-> value]>>))

walkOp(qs, sess, rawOid) ==
    LET oid == trimOid(rawOid)
    IN  IF ~isValidSnmpOid(oid) \/ Len(oid) = 0
        THEN settledAtOnce(qs, "resolved")
        ELSE add(qs, sess, newTask(qs, "walk", PriorityGet, <<oid>>, TRUE, << >>))

\* typeOrOid is a string (isOid, typeOrOid = the string) or a TrapType number
sendOp(qs, sess, kind, priority, isOid, typeOrOid, varbinds) ==
    add(qs, sess,
        newTask(qs, kind, priority, IF isOid THEN <<typeOrOid>> ELSE << >>, isOid, varbinds))

getOid(oids) ==
    /\ canCall
    /\ setQueue(getOidOp(currentQueue, session, oids))
    /\ UNCHANGED <<phase, session, cacheVars, observed, trackerVars, hostVars,
                   utilVars>>

setOid(oid, type, value) ==
    /\ canCall
    /\ setQueue(setOidOp(currentQueue, session, oid, type, value))
    /\ UNCHANGED <<phase, session, cacheVars, observed, trackerVars, hostVars,
                   utilVars>>

walk(oid) ==
    /\ canCall
    /\ setQueue(walkOp(currentQueue, session, oid))
    /\ UNCHANGED <<phase, session, cacheVars, observed, trackerVars, hostVars,
                   utilVars>>

sendInform(isOid, typeOrOid, varbinds) ==
    /\ canCall
    /\ setQueue(sendOp(currentQueue, session, "inform", PriorityInform,
                       isOid, typeOrOid, varbinds))
    /\ UNCHANGED <<phase, session, cacheVars, observed, trackerVars, hostVars,
                   utilVars>>

sendTrap(isOid, typeOrOid, varbinds) ==
    /\ canCall
    /\ setQueue(sendOp(currentQueue, session, "trap", PriorityTrap,
                       isOid, typeOrOid, varbinds))
    /\ UNCHANGED <<phase, session, cacheVars, observed, trackerVars, hostVars,
                   utilVars>>

(***************************************************************************)
(* The session calls back.                                                 *)
(***************************************************************************)
settledAs(error) == IF error THEN "rejected_transport" ELSE "resolved"

\* session.get's callback (error, varbinds)
getCallback(task, error, isArray, varbinds) ==
    /\ task \in outstanding /\ task.kind = "get"
    /\ UNCHANGED <<phase, session, lastBatch, trackerVars, hostVars, utilVars>>
    /\ arrival' = IF isArray THEN "get" ELSE arrival
    /\ delivered' = delivered \ {task.id}
    /\ setCache(getResponseOp(currentCache, oidToFeedbacks, isArray, varbinds))
    /\ setQueue(finish(currentQueue, session, task, settledAs(error)))

\* the callbacks of session.set, session.inform and session.trap
sendCallback(task, error) ==
    /\ task \in outstanding /\ task.kind \in {"set", "inform", "trap"}
    /\ UNCHANGED <<phase, session, cacheVars, observed, trackerVars, hostVars,
                   utilVars>>
    /\ setQueue(finish(currentQueue, session, task, settledAs(error)))

\* session.walk's feedCb
feedCb(task, varbinds) ==
    /\ task \in outstanding /\ task.kind = "walk"
    /\ UNCHANGED <<phase, session, queueVars, lastBatch, trackerVars, hostVars,
                   utilVars>>
    /\ arrival' = "walk"
    /\ setCache(forEachHandleVarbind(currentCache, oidToFeedbacks, varbinds))
    /\ delivered' = IF oidValues' # oidValues THEN delivered \cup {task.id} ELSE delivered

\* session.walk's doneCb
doneCb(task, error) ==
    /\ task \in outstanding /\ task.kind = "walk"
    /\ UNCHANGED <<phase, session, cacheVars, lastBatch, arrival, trackerVars, hostVars,
                   utilVars>>
    /\ delivered' = delivered \ {task.id}
    /\ setQueue(finish(currentQueue, session, task, settledAs(error)))

\* the queue's interval has passed: the count starts again and processQueue runs
onInterval ==
    /\ intervalCount > 0
    /\ setQueue(tryToStartAnother([currentQueue EXCEPT !.intervalCount = 0], session, TRUE))
    /\ UNCHANGED <<phase, session, cacheVars, observed, trackerVars, hostVars,
                   utilVars>>

(***************************************************************************)
(* Lifecycle: init, configUpdated, destroy.  The configuration is reduced  *)
(* to whether connectAgent accepts it, its list of walk paths, whether     *)
(* traps are listened for and whether an interval for polling is set.      *)
(***************************************************************************)
disconnectAgent(sess) == IF sess # "null" THEN "closed" ELSE sess

connectAgent(sess, configOk) == IF configOk THEN "open" ELSE disconnectAgent(sess)

\* a closeListener that leaves the receiver and its sockets as they are
closeListenerLeavesOpen(l) == l

\* closeListener: the receiver, the wrapper and the socket are closed and the
\* socket's listeners removed, whether the socket is bound, binding or failed
closeListener(l) == IF l \in {"open", "binding", "failed"} THEN "closed" ELSE l

\* createListener, which closes the listener there is and binds a new one
createListener(l) == "open"

\* a close() that leaves the session open
sessionClosedStaysOpen(sess, n) == n

\* this.session.close() in disconnectAgent: one open session fewer
sessionClosed(sess, n) == IF sess = "open" THEN n - 1 ELSE n

\* connectAgent: disconnectAgent, then createSession or createV3Session when
\* the configuration is complete
sessionCreated(sess, n, configOk) ==
    IF configOk THEN sessionClosed(sess, n) + 1 ELSE sessionClosed(sess, n)

\* this.receiver.close() in closeListener: one receiver fewer
receiverClosed(l, n) == IF l = "open" THEN n - 1 ELSE n

\* createListener: closeListener, then createReceiver on the new socket
receiverCreated(l, n) == receiverClosed(l, n) + 1

\* a reconfiguration that leaves the timeout of the previous one running
clearPollTimerKeepsTimeout(handle, n) == n

\* if (this.pollTimer) { clearTimeout(this.pollTimer); delete this.pollTimer }
clearPollTimer(handle, n) == IF handle THEN n - 1 ELSE n

\* the end of pollOids: setTimeout when an interval is configured
setPollTimer(n, polls) == IF polls THEN n + 1 ELSE n

RECURSIVE walkPaths(_, _, _)
walkPaths(qs, sess, paths) ==
    IF paths = << >>
    THEN qs
    ELSE walkPaths(walkOp(qs, sess, Head(paths)), sess, Tail(paths))

\* the queue together with the state of throttledBatchGet
batchOf(qs, state, oids) == [queue |-> qs, batchGet |-> state, pendingOids |-> oids]

\* Set.add on a set kept in insertion order
setAdd(oids, oid) ==
    IF \E i \in 1..Len(oids) : oids[i] = oid THEN oids ELSE Append(oids, oid)

\* the function throttledBatchGet wraps
batchGetFn(b, sess) ==
    IF Len(b.pendingOids) = 0
    THEN b
    ELSE [b EXCEPT !.queue = getOidOp(b.queue, sess, b.pendingOids),
                   !.pendingOids = << >>]

\* a call of throttledBatchGet: at once when no timer runs, else at the
\* end of the running timer
throttledBatchGetOp(b, sess) ==
    IF b.batchGet = "idle"
    THEN [batchGetFn(b, sess) EXCEPT !.batchGet = "window"]
    ELSE [b EXCEPT !.batchGet = "armed"]

\* the subscribe callback of an action or feedback that asks for updates
subscribeOp(b, sess, oid) ==
    throttledBatchGetOp([b EXCEPT !.pendingOids = setAdd(@, oid)], sess)

\* pollOids: subscribeActions and subscribeFeedbacks run the subscribe
\* callbacks of the subscribed actions and feedbacks
RECURSIVE pollOidsOp(_, _, _)
pollOidsOp(b, sess, subscribed) ==
    IF subscribed = << >>
    THEN b
    ELSE pollOidsOp(subscribeOp(b, sess, Head(subscribed)), sess, Tail(subscribed))

\* the calls pollOids can add to the queue
pollCalls(polls, subscribed) == IF polls /\ subscribed # << >> THEN 1 ELSE 0

initializeConnection(qs, configOk, paths) ==
    walkPaths(qs, connectAgent(session, configOk), paths)

setBatch(after) ==
    \E b \in {after} :
        /\ setQueue(b.queue)
        /\ batchGet' = b.batchGet
        /\ pendingOids' = b.pendingOids

\* initializeConnection: connectAgent, then createListener if traps are
\* configured, then the walks, then pollOids if an interval is configured
initializeConnectionWith(qs, configOk, paths, polls, subscribed) ==
    LET walked == batchOf(initializeConnection(qs, configOk, paths), batchGet, pendingOids)
    IN  IF polls
        THEN pollOidsOp(walked, connectAgent(session, configOk), subscribed)
        ELSE walked

initWith(configOk, paths, traps, polls, subscribed) ==
    /\ phase = "constructed"
    /\ Len(promise) + Len(paths) + pollCalls(polls, subscribed) <= MaxTasks
    /\ phase' = "running"
    /\ session' = connectAgent(session, configOk)
    /\ listener' = IF traps THEN createListener(listener) ELSE listener
    /\ pollTimer' = (polls \/ pollTimer)
    /\ timers' = setPollTimer(timers, polls)
    /\ sessions' = sessionCreated(session, sessions, configOk)
    /\ receivers' = IF traps THEN receiverCreated(listener, receivers) ELSE receivers
    /\ createListenerPromise' = IF traps THEN "resolved" ELSE createListenerPromise
    /\ setBatch(initializeConnectionWith(currentQueue, configOk, paths, polls, subscribed))
    /\ UNCHANGED <<cacheVars, observed, trackerVars, wrapperVars, utilVars>>

configUpdatedWith(configOk, paths, traps, polls, subscribed) ==
    /\ phase = "running"
    /\ Len(promise) + Len(paths) + pollCalls(polls, subscribed) <= MaxTasks
    /\ session' = connectAgent(session, configOk)
    /\ listener' = IF traps THEN createListener(closeListener(listener))
                   ELSE closeListener(listener)
    /\ pollTimer' = polls
    /\ timers' = setPollTimer(clearPollTimer(pollTimer, timers), polls)
    /\ sessions' = sessionCreated(session, sessions, configOk)
    /\ receivers' = IF traps
                    THEN receiverCreated(closeListener(listener),
                                         receiverClosed(listener, receivers))
                    ELSE receiverClosed(listener, receivers)
    /\ createListenerPromise' = IF traps THEN "resolved" ELSE createListenerPromise
    /\ setBatch(initializeConnectionWith(clearQueue(currentQueue), configOk, paths,
                                         polls, subscribed))
    /\ UNCHANGED <<phase, cacheVars, observed, trackerVars, wrapperVars, utilVars>>

\* init and configUpdated with a configuration that listens for traps and
\* sets no polling interval
init(configOk, paths) == initWith(configOk, paths, TRUE, FALSE, << >>)

configUpdated(configOk, paths) == configUpdatedWith(configOk, paths, TRUE, FALSE, << >>)

\* a destroy that leaves the poll timer running
destroyKeepsPollTimer ==
    /\ phase = "running"
    /\ phase' = "destroyed"
    /\ setQueue(clearQueue(currentQueue))
    /\ checkArmed' = FALSE
    /\ definitionsArmed' = FALSE
    /\ batchGet' = "idle"
    /\ session' = disconnectAgent(session)
    /\ listener' = closeListener(listener)
    /\ sessions' = sessionClosed(session, sessions)
    /\ receivers' = receiverClosed(listener, receivers)
    /\ UNCHANGED <<oidValues, feedbackIdsToCheck, lastLog, observed, trackerVars,
                   pollTimer, timers, pendingOids,
                   createListenerPromise, wrapperVars, utilVars>>

destroy ==
    /\ phase = "running"
    /\ phase' = "destroyed"
    /\ setQueue(clearQueue(currentQueue))
    /\ checkArmed' = FALSE
    /\ batchGet' = "idle"
    /\ definitionsArmed' = FALSE
    /\ pollTimer' = FALSE
    /\ timers' = clearPollTimer(pollTimer, timers)
    /\ session' = disconnectAgent(session)
    /\ listener' = closeListener(listener)
    /\ sessions' = sessionClosed(session, sessions)
    /\ receivers' = receiverClosed(listener, receivers)
    /\ UNCHANGED <<oidValues, feedbackIdsToCheck, lastLog, observed, trackerVars,
                   pendingOids, createListenerPromise, wrapperVars, utilVars>>

\* the poll timer expires: pollOids runs and sets the timer again
pollTimerFires(subscribed) ==
    /\ pollTimer
    /\ Len(promise) + pollCalls(TRUE, subscribed) <= MaxTasks
    /\ setBatch(pollOidsOp(batchOf(currentQueue, batchGet, pendingOids), session, subscribed))
    /\ timers' = setPollTimer(timers - 1, TRUE)
    /\ UNCHANGED <<phase, session, cacheVars, observed, trackerVars, pollTimer, listener,
                   sessions, receivers, createListenerPromise, wrapperVars, utilVars>>

\* the timer of throttledBatchGet expires: the call that was held back runs
throttledBatchGetTimer ==
    /\ batchGet # "idle"
    /\ Len(promise) < MaxTasks
    /\ setBatch([(IF batchGet = "armed"
                  THEN batchGetFn(batchOf(currentQueue, batchGet, pendingOids), session)
                  ELSE batchOf(currentQueue, batchGet, pendingOids))
                 EXCEPT !.batchGet = "idle"])
    /\ UNCHANGED <<phase, session, cacheVars, observed, trackerVars, pollTimer, listener,
                   timers, sessions, receivers, createListenerPromise,
                   wrapperVars, utilVars>>

(***************************************************************************)
(* The trap listener step by step.  createListener returns a promise that  *)
(* the socket's 'listening' handler resolves and its 'error' handler       *)
(* rejects; initializeConnection waits for it.  The configuration of these *)
(* steps listens for traps, walks nothing and sets no polling interval, so *)
(* that nothing is left for initializeConnection to do after the wait.     *)
(***************************************************************************)
\* init up to the wait for createListener: the socket is created and bound
initBinds(configOk) ==
    /\ phase = "constructed"
    /\ phase' = "running"
    /\ session' = connectAgent(session, configOk)
    /\ sessions' = sessionCreated(session, sessions, configOk)
    /\ listener' = "binding"
    /\ receivers' = receiverClosed(listener, receivers)
    /\ createListenerPromise' = "pending"
    /\ UNCHANGED <<queueVars, cacheVars, observed, trackerVars, pollTimer, batchGet,
                   pendingOids, timers, wrapperVars, utilVars>>

\* configUpdated up to the wait for createListener
configUpdatedBinds(configOk) ==
    /\ phase = "running"
    /\ setQueue(clearQueue(currentQueue))
    /\ pollTimer' = FALSE
    /\ timers' = clearPollTimer(pollTimer, timers)
    /\ session' = connectAgent(session, configOk)
    /\ sessions' = sessionCreated(session, sessions, configOk)
    /\ listener' = "binding"
    /\ receivers' = receiverClosed(listener, receivers)
    /\ createListenerPromise' = "pending"
    /\ UNCHANGED <<phase, cacheVars, observed, trackerVars, batchGet, pendingOids,
                   wrapperVars, utilVars>>

\* the socket's 'listening' handler: the wrapper and the receiver are
\* created and the promise is resolved
socketListening ==
    /\ listener = "binding"
    /\ listener' = createListener(listener)
    /\ receivers' = receiverCreated(listener, receivers)
    /\ createListenerPromise' = "resolved"
    /\ UNCHANGED <<phase, session, queueVars, cacheVars, observed, trackerVars,
                   pollTimer, batchGet, pendingOids, timers, sessions,
                   wrapperVars, utilVars>>

\* the socket's 'error' handler during the bind: the listeners are removed
\* and the promise is rejected; initializeConnection logs the error
socketError ==
    /\ listener = "binding"
    /\ listener' = "failed"
    /\ createListenerPromise' = "rejected"
    /\ UNCHANGED <<phase, session, queueVars, cacheVars, observed, trackerVars,
                   pollTimer, batchGet, pendingOids, timers, sessions, receivers,
                   wrapperVars, utilVars>>

\* the callback given to createReceiver, called with a notification
receiverCallback(varbinds) ==
    /\ receivers > 0
    /\ UNCHANGED <<phase, session, queueVars, lastBatch, delivered, trackerVars, hostVars,
                   utilVars>>
    /\ arrival' = "trap"
    /\ setCache(processTrapOp(currentCache, oidToFeedbacks, TRUE, varbinds))

(***************************************************************************)
(* The request queue in front of the session: every call, every callback   *)
(* of the session, the queue's interval, reconfiguration and destroy.      *)
(***************************************************************************)
VB_A1 == [oid |-> OID_A, type |-> "Integer", value |-> 1]
VB_A2 == [oid |-> OID_A, type |-> "Integer", value |-> 2]
VB_B1 == [oid |-> OID_B, type |-> "Integer", value |-> 1]
VB_OUT_OK == [oid |-> RAW_DOT_B, type |-> "Integer", value |-> 5]
VB_OUT_BAD == [oid |-> RAW_BAD, type |-> "Integer", value |-> 5]

QueueGetInputs == {<<OID_A>>, <<RAW_BAD, RAW_DOT_B>>, <<RAW_BAD>>}
QueueOidInputs == {OID_A, RAW_BAD}
QueueInformInputs ==
    {[isOid |-> FALSE, typeOrOid |-> << >>, varbinds |-> << >>],
     [isOid |-> TRUE, typeOrOid |-> RAW_BAD, varbinds |-> << >>]}
QueueTrapInputs ==
    {[isOid |-> TRUE, typeOrOid |-> RAW_SPACE_C, varbinds |-> <<VB_OUT_OK>>],
     [isOid |-> FALSE, typeOrOid |-> << >>, varbinds |-> <<VB_OUT_BAD>>]}
QueueResponses == {<< >>, <<VB_A1>>}
QueueWalkPaths == {<< >>, <<OID_A>>}

NextQueue ==
    \/ \E ok \in BOOLEAN, paths \in QueueWalkPaths : init(ok, paths)
    \/ \E ok \in BOOLEAN, paths \in QueueWalkPaths : configUpdated(ok, paths)
    \/ destroy
    \/ \E oids \in QueueGetInputs : getOid(oids)
    \/ \E oid \in QueueOidInputs : setOid(oid, "Integer", 5)
    \/ \E oid \in QueueOidInputs : walk(oid)
    \/ \E a \in QueueInformInputs : sendInform(a.isOid, a.typeOrOid, a.varbinds)
    \/ \E a \in QueueTrapInputs : sendTrap(a.isOid, a.typeOrOid, a.varbinds)
    \/ \E task \in outstanding, error \in BOOLEAN, isArray \in BOOLEAN,
          varbinds \in QueueResponses : getCallback(task, error, isArray, varbinds)
    \/ \E task \in outstanding, error \in BOOLEAN : sendCallback(task, error)
    \/ \E task \in outstanding, varbinds \in QueueResponses : feedCb(task, varbinds)
    \/ \E task \in outstanding, error \in BOOLEAN : doneCb(task, error)
    \/ onInterval
    \/ debouncedUpdateDefinitions

SpecQueue == Init /\ [][NextQueue]_vars

(***************************************************************************)
(* The same queue with one read, one write, one walk and one notification *)
(* as calls, under the scheduling the runtime provides: the queue's        *)
(* interval timer fires, and the session calls back once for every request *)
(* it was given.                                                           *)
(***************************************************************************)
LiveResponses == {<<VB_A1>>}

\* the session's final callback for some outstanding request
sessionCallsBack ==
    \/ \E task \in outstanding, error \in BOOLEAN, varbinds \in LiveResponses :
          getCallback(task, error, ~error, varbinds)
    \/ \E task \in outstanding, error \in BOOLEAN : sendCallback(task, error)
    \/ \E task \in outstanding, error \in BOOLEAN : doneCb(task, error)

NextLive ==
    \/ init(TRUE, << >>)
    \/ \E ok \in BOOLEAN : configUpdated(ok, << >>)
    \/ destroy
    \/ getOid(<<OID_A>>)
    \/ setOid(OID_A, "Integer", 5)
    \/ walk(OID_A)
    \/ sendTrap(TRUE, RAW_SPACE_C, <<VB_OUT_OK>>)
    \/ sessionCallsBack
    \/ onInterval

FairQueue ==
    Init /\ [][NextLive]_vars /\ WF_vars(onInterval) /\ WF_vars(sessionCallsBack)

queuedIds == {queue[i].id : i \in 1..Len(queue)}
outstandingIds == {task.id : task \in outstanding}
callIds == 1..Len(promise)
isSettled(id) == id \in callIds /\ promise[id] # "pending"
\* removed by snmpQueue.clear() before it was started
isCleared(id) ==
    id \in callIds /\ promise[id] = "pending" /\ id \notin queuedIds \cup outstandingIds

\* the priority classes of the queue: notifications, writes, reads
priorityClass(task) ==
    IF task.kind \in {"trap", "inform"} THEN 2
    ELSE IF task.kind = "set" THEN 1
    ELSE 0

\* C1: at most one request is in flight against the session: the queue never
\* makes a session call while an earlier one has not called back.
SingleFlight == Cardinality(outstanding) <= 1

\* one request in flight while two more calls wait in the queue
SingleFlightWitness == Cardinality(outstanding) = 1 /\ Len(queue) >= 2

\* C2: when the queue picks the next task, no task that stays pending is of a
\* higher priority class than the picked one (notifications before setOid,
\* setOid before getOid and walk).
HighestPriorityFirst ==
    [][dispatched' # dispatched =>
          \A i \in 1..Len(queue') :
              priorityClass(queue'[i]) <= priorityClass(dispatched'[1])]_vars

\* a notification was started while a read submitted before it still waits
HighestPriorityFirstWitness ==
    /\ dispatched # << >>
    /\ priorityClass(dispatched[1]) = 2
    /\ \E i \in 1..Len(queue) :
          priorityClass(queue[i]) = 0 /\ queue[i].id < dispatched[1].id

\* C3: among pending tasks of equal priority the queue starts the one that
\* was submitted first.
FifoWithinPriority ==
    [][dispatched' # dispatched =>
          \A i \in 1..Len(queue') :
              queue'[i].priority = dispatched'[1].priority
                  => queue'[i].id > dispatched'[1].id]_vars

\* a getOid was started ahead of a walk submitted after it, both behind an
\* earlier call
FifoWithinPriorityWitness ==
    /\ dispatched # << >>
    /\ dispatched[1].kind = "get" /\ dispatched[1].id = 2
    /\ \E i \in 1..Len(queue) : queue[i].kind = "walk" /\ queue[i].id = 3

\* a step in which the session reports a failure for an outstanding request
transportFailure(task) ==
    \/ \E isArray \in BOOLEAN, varbinds \in QueueResponses \cup LiveResponses :
          getCallback(task, TRUE, isArray, varbinds)
    \/ sendCallback(task, TRUE)
    \/ doneCb(task, TRUE)

\* the promise has been rejected, whatever the error
isRejected(status) == status \notin {"pending", "resolved"}

\* some call has been rejected with the transport's error
someCallFailed == \E id \in callIds : promise[id] = "rejected_transport"

\* C4: when the session calls back with an error the call's promise rejects
\* with that error and the queue no longer counts the task as running; once a
\* call has failed, every call submitted so far is still started and settled
\* (unless snmpQueue.clear() removes it first).
FailureDoesNotWedge ==
    /\ [][\A task \in outstanding :
             transportFailure(task) =>
                 /\ promise'[task.id] = "rejected_transport"
                 /\ pending' = Cardinality(outstanding')
                 /\ (Len(queue') > 0 /\ pending' = 0 => intervalCount' > 0)]_vars
    /\ someCallFailed ~> (\A id \in callIds : isSettled(id) \/ isCleared(id))

\* a call failed at the transport and a call submitted after it has resolved
FailureDoesNotWedgeWitness ==
    /\ Len(promise) >= 2
    /\ promise[1] = "rejected_transport"
    /\ promise[2] = "resolved"

\* the OID arguments a task carries into the queue are valid: only the
\* enterprise OID of a notification can be invalid there
hasValidOids(task) ==
    ~(task.kind \in {"trap", "inform"} /\ task.isOid
      /\ ~isValidSnmpOid(trimOid(task.oids[1])))

TrackerFeedbackIds == {"fb1", "fb2", "fb3"}
TrackerOids == {OID_A, RAW_DOT_B, RAW_SPACE_C, OID_D,
                RAW_SPACE_DOT_A, RAW_BAD, RAW_SINGLE_ARC, RAW_LEADING_ZERO, RAW_EMPTY}

NextTracker ==
    \/ \E id \in TrackerFeedbackIds, oid \in TrackerOids : addFeedback(id, oid)
    \/ \E id \in TrackerFeedbackIds, oid \in TrackerOids : updateFeedback(id, oid)
    \/ \E id \in TrackerFeedbackIds : removeFeedback(id)
    \/ clear

SpecTracker == Init /\ [][NextTracker]_vars

\* C10: the two tracker maps are mutually consistent: feedbackToOid[id] = oid
\* exactly when id is a member of oidToFeedbacks[oid], so every subscriber id
\* is in at most one OID's watcher set, also after calls that threw.
TrackerMapsConsistent ==
    /\ \A id \in DOMAIN feedbackToOid :
          /\ feedbackToOid[id] \in DOMAIN oidToFeedbacks
          /\ id \in oidToFeedbacks[feedbackToOid[id]]
    /\ \A oid \in DOMAIN oidToFeedbacks : \A id \in oidToFeedbacks[oid] :
          /\ id \in DOMAIN feedbackToOid
          /\ feedbackToOid[id] = oid

\* a subscriber that re-registered (one OID left behind, another shared) and
\* a subscriber whose invalid re-registration threw
TrackerMapsConsistentWitness ==
    /\ "fb1" \in DOMAIN feedbackToOid /\ feedbackToOid["fb1"] = OID_B
    /\ "fb2" \in DOMAIN feedbackToOid /\ feedbackToOid["fb2"] = OID_B
    /\ "fb3" \notin DOMAIN feedbackToOid
    /\ DOMAIN oidToFeedbacks = {OID_B}

(***************************************************************************)
(* Value cache and dispatch: varbinds come in by get responses, walk feeds *)
(* and trap notifications while feedbacks subscribe and unsubscribe, and   *)
(* the trailing call of throttledFeedbackIdCheck hands the dirty ids to    *)
(* checkFeedbacksById.                                                     *)
(***************************************************************************)
VB_A_NOSUCHOBJECT == [oid |-> OID_A, type |-> "NoSuchObject", value |-> 0]
VB_B_NOSUCHINSTANCE == [oid |-> OID_B, type |-> "NoSuchInstance", value |-> 0]
VB_A_ENDOFMIBVIEW == [oid |-> OID_A, type |-> "EndOfMibView", value |-> 0]

\* the registrations offered: fb1 watches either OID, fb2 the first one or an
\* invalid one
CacheRegistrations ==
    {<<"fb1", OID_A>>, <<"fb1", RAW_DOT_B>>, <<"fb2", OID_A>>, <<"fb2", RAW_BAD>>}
CacheResponses ==
    {<< >>, <<VB_A1>>, <<VB_A1, VB_A2>>, <<VB_A2, VB_B1>>,
     <<VB_A_NOSUCHOBJECT, VB_B1>>, <<VB_B_NOSUCHINSTANCE>>, <<VB_A1, VB_A_ENDOFMIBVIEW>>}

NextCache ==
    \/ init(TRUE, << >>)
    \/ \E r \in CacheRegistrations : addFeedback(r[1], r[2])
    \/ \E r \in CacheRegistrations : removeFeedback(r[1])
    \/ Len(promise) < MaxReads /\ getOid(<<OID_A, RAW_DOT_B>>)
    \/ Len(promise) < MaxReads /\ walk(OID_A)
    \/ \E task \in outstanding, varbinds \in CacheResponses :
          getCallback(task, FALSE, TRUE, varbinds)
    \/ \E task \in outstanding, varbinds \in CacheResponses : feedCb(task, varbinds)
    \/ \E task \in outstanding : doneCb(task, FALSE)
    \/ \E varbinds \in CacheResponses : processTrap(TRUE, varbinds)
    \/ onInterval

SpecCache == Init /\ [][NextCache]_vars

\* C6: no entry of the value cache has one of the absence types, whatever
\* get responses, walk feeds and trap notifications have been processed.
NoAbsenceCached ==
    \A oid \in DOMAIN oidValues : oidValues[oid].type \notin AbsenceTypes

\* the last varbind handled was discarded as an error and the value cached
\* for its OID before is still there
NoAbsenceCachedWitness ==
    /\ lastLog = "warn"
    /\ arrival = "trap"
    /\ OID_A \in DOMAIN oidValues /\ oidValues[OID_A] = VB_A1
    /\ OID_B \notin DOMAIN oidValues

\* a step in which handleVarbind is given the varbinds of the list, in order
delivers(varbinds) ==
    \/ processTrap(TRUE, varbinds)
    \/ \E task \in outstanding : getCallback(task, FALSE, TRUE, varbinds)
    \/ \E task \in outstanding : feedCb(task, varbinds)

\* the varbinds of a list that carry a value for the OID
valuesFor(varbinds, oid) ==
    {i \in 1..Len(varbinds) :
        varbinds[i].oid = oid /\ varbinds[i].type \notin AbsenceTypes}

lastOf(indices) == CHOOSE i \in indices : \A j \in indices : j <= i

\* C7: after a list of varbinds has been handled, whatever the path it came
\* in by, the cache holds for every OID the last varbind of the list that
\* carries a value for it, overwriting the earlier entry, and the entries of
\* the OIDs the list carries no value for are unchanged.
LastWriteWins ==
    [][\A varbinds \in CacheResponses :
          delivers(varbinds) =>
              \A oid \in {OID_A, OID_B} :
                  IF valuesFor(varbinds, oid) # {}
                  THEN /\ oid \in DOMAIN oidValues'
                       /\ oidValues'[oid] = varbinds[lastOf(valuesFor(varbinds, oid))]
                  ELSE /\ (oid \in DOMAIN oidValues') = (oid \in DOMAIN oidValues)
                       /\ oid \in DOMAIN oidValues => oidValues'[oid] = oidValues[oid]]_vars

\* a trap has overwritten the value of one OID while a read that was answered
\* before it left the value of the other OID in the cache
LastWriteWinsWitness ==
    /\ arrival = "trap"
    /\ lastLog = "info"
    /\ \E id \in callIds : promise[id] = "resolved"
    /\ DOMAIN oidValues = {OID_A, OID_B}
    /\ oidValues[OID_A] = VB_A2
    /\ oidValues[OID_B] = VB_B1

\* the fields a subscriber can observe of a cache state
dispatchView(cs) == <<cs.oidValues, cs.feedbackIdsToCheck, cs.checkArmed>>

\* C9: a list of varbinds delivered by a notification leaves the value cache,
\* the dirty set and the scheduled dispatch exactly as the same list does when
\* a get response or a walk feed delivers it in the same state.
TrapLikePoll ==
    [][\A varbinds \in CacheResponses :
          processTrap(TRUE, varbinds) =>
              /\ <<oidValues', feedbackIdsToCheck', checkArmed'>> =
                     dispatchView(getResponseOp(currentCache, oidToFeedbacks,
                                                TRUE, varbinds))
              /\ <<oidValues', feedbackIdsToCheck', checkArmed'>> =
                     dispatchView(forEachHandleVarbind(currentCache, oidToFeedbacks,
                                                       varbinds))]_vars

\* a notification has cached a value and marked its watcher, the dispatch is
\* scheduled
TrapLikePollWitness ==
    /\ arrival = "trap"
    /\ OID_A \in DOMAIN oidValues /\ oidValues[OID_A] = VB_A2
    /\ "fb1" \in feedbackIdsToCheck
    /\ "fb2" \notin feedbackIdsToCheck
    /\ checkArmed

(***************************************************************************)
(* The same paths with the dispatch: the trailing call of                  *)
(* throttledFeedbackIdCheck runs once its timer has expired, and destroy   *)
(* cancels it.                                                             *)
(***************************************************************************)
DispatchFeedbackIds == {"fb1", "fb2"}
DispatchRegistrations == {<<"fb1", OID_A>>, <<"fb2", OID_A>>, <<"fb2", RAW_DOT_B>>}
DispatchResponses == {<<VB_A1>>, <<VB_A_NOSUCHOBJECT, VB_B1>>}

NextDispatch ==
    \/ init(TRUE, << >>)
    \/ destroy
    \/ \E r \in DispatchRegistrations : addFeedback(r[1], r[2])
    \/ \E id \in DispatchFeedbackIds : removeFeedback(id)
    \/ Len(promise) < MaxReads /\ getOid(<<OID_A>>)
    \/ Len(promise) < MaxReads /\ walk(OID_A)
    \/ \E task \in outstanding, varbinds \in DispatchResponses :
          getCallback(task, FALSE, TRUE, varbinds)
    \/ \E task \in outstanding, varbinds \in DispatchResponses : feedCb(task, varbinds)
    \/ \E task \in outstanding : doneCb(task, FALSE)
    \/ \E varbinds \in DispatchResponses : processTrap(TRUE, varbinds)
    \/ onInterval
    \/ throttledFeedbackIdCheck

FairDispatch == Init /\ [][NextDispatch]_vars /\ WF_vars(throttledFeedbackIdCheck)

membersOf(pg, oid) == IF oid \in DOMAIN pg THEN pg[oid] ELSE {}

\* a poll group that keeps the key of an OID whose last requester has gone
removeFromPollGroupKeepsKey(pg, oid, requesterId) ==
    IF oid \in DOMAIN pg THEN mapSet(pg, oid, pg[oid] \ {requesterId}) ELSE pg

\* a poll group that drops the OID as soon as one requester leaves
removeFromPollGroupDropsOid(pg, oid, requesterId) ==
    IF oid \in DOMAIN pg /\ requesterId \in pg[oid] THEN mapDelete(pg, oid) ELSE pg

removeFromPollGroupOp(pg, oid, requesterId) ==
    IF oid \in DOMAIN pg
    THEN LET members == pg[oid] \ {requesterId}
         IN  IF members = {} THEN mapDelete(pg, oid) ELSE mapSet(pg, oid, members)
    ELSE pg

\* addToPollGroup: the poll group it leaves behind and whether it threw
addToPollGroupOp(pg, rawOid, requesterId) ==
    LET oid == trimOid(rawOid)
    IN  IF ~isAcceptedOid(oid)
        THEN [pollGroup |-> pg, threw |-> TRUE]
        ELSE [pollGroup |-> mapSet(pg, oid, membersOf(pg, oid) \cup {requesterId}),
              threw |-> FALSE]

getOidsToPoll(pg) == {oid \in DOMAIN pg : pg[oid] # {}}

\* removeFeedback with the poll group: the id also leaves the poll group of
\* the OID it watched
removeFeedbackPollOp(tr, pg, feedbackId) ==
    [tracker |-> removeFeedbackOp(tr, feedbackId),
     pollGroup |-> IF feedbackId \in DOMAIN tr.feedbackToOid
                   THEN removeFromPollGroupOp(pg, tr.feedbackToOid[feedbackId], feedbackId)
                   ELSE pg]

\* addFeedback(id, oid, shouldPoll) that leaves the poll-group membership of
\* the id's earlier OID in place
addFeedbackPollKeepsOld(tr, pg, feedbackId, rawOid, shouldPoll) ==
    LET added == addFeedbackOp(tr, feedbackId, rawOid)
    IN  [tracker |-> added.tracker,
         pollGroup |-> IF ~added.threw /\ shouldPoll
                       THEN addToPollGroupOp(pg, rawOid, feedbackId).pollGroup
                       ELSE pg,
         threw |-> added.threw]

\* addFeedback(id, oid, shouldPoll)
addFeedbackPollOp(tr, pg, feedbackId, rawOid, shouldPoll) ==
    LET removed == removeFeedbackPollOp(tr, pg, feedbackId)
        added == addFeedbackOp(tr, feedbackId, rawOid)
    IN  [tracker |-> added.tracker,
         pollGroup |-> IF ~added.threw /\ shouldPoll
                       THEN addToPollGroupOp(removed.pollGroup, rawOid, feedbackId).pollGroup
                       ELSE removed.pollGroup,
         threw |-> added.threw]

setTracker(after) ==
    \E r \in {after} :
        /\ oidToFeedbacks' = r.tracker.oidToFeedbacks
        /\ feedbackToOid' = r.tracker.feedbackToOid
        /\ pollGroup' = r.pollGroup

subscribe(feedbackId, oid, shouldPoll) ==
    /\ UNCHANGED <<phase, session, queueVars, cacheVars, observed, hostVars,
                   utilVars>>
    /\ setTracker(addFeedbackPollOp(trackerOf(oidToFeedbacks, feedbackToOid), pollGroup,
                                    feedbackId, oid, shouldPoll))

\* updateFeedback(id, newOid, shouldPoll)
updateSubscription(feedbackId, newOid, shouldPoll) ==
    /\ UNCHANGED <<phase, session, queueVars, cacheVars, observed, hostVars,
                   utilVars>>
    /\ setTracker(addFeedbackPollOp(trackerOf(oidToFeedbacks, feedbackToOid), pollGroup,
                                    feedbackId, newOid, shouldPoll))

unsubscribe(feedbackId) ==
    /\ UNCHANGED <<phase, session, queueVars, cacheVars, observed, hostVars,
                   utilVars>>
    /\ setTracker(removeFeedbackPollOp(trackerOf(oidToFeedbacks, feedbackToOid), pollGroup,
                                       feedbackId))

addToPollGroup(oid, requesterId) ==
    /\ UNCHANGED <<phase, session, queueVars, cacheVars, observed, oidToFeedbacks,
                   feedbackToOid, hostVars, utilVars>>
    /\ pollGroup' = addToPollGroupOp(pollGroup, oid, requesterId).pollGroup

removeFromPollGroup(oid, requesterId) ==
    /\ UNCHANGED <<phase, session, queueVars, cacheVars, observed, oidToFeedbacks,
                   feedbackToOid, hostVars, utilVars>>
    /\ pollGroup' = removeFromPollGroupOp(pollGroup, oid, requesterId)

\* clear(): every structure of the tracker is reset
clearAll ==
    /\ UNCHANGED <<phase, session, queueVars, cacheVars, observed, hostVars,
                   utilVars>>
    /\ oidToFeedbacks' = EmptyMap
    /\ feedbackToOid' = EmptyMap
    /\ pollGroup' = EmptyMap

PollFeedbackIds == {"fb1", "fb2"}
PollRequesterIds == {"act1", "act2"}
PollOids == {OID_A, RAW_DOT_B, RAW_SPACE_C, RAW_BAD}
PollKeys == {OID_A, OID_B, OID_C}
PollGroupOids == {OID_A, RAW_DOT_B, RAW_BAD}

NextPoll ==
    \/ \E id \in PollFeedbackIds, oid \in PollOids, shouldPoll \in BOOLEAN :
          subscribe(id, oid, shouldPoll)
    \/ \E id \in PollFeedbackIds, oid \in PollOids, shouldPoll \in BOOLEAN :
          updateSubscription(id, oid, shouldPoll)
    \/ \E id \in PollFeedbackIds : unsubscribe(id)
    \/ \E oid \in PollGroupOids, r \in PollRequesterIds : addToPollGroup(oid, r)
    \/ \E oid \in PollKeys, r \in PollRequesterIds \cup PollFeedbackIds :
          removeFromPollGroup(oid, r)
    \/ clearAll

SpecPoll == Init /\ [][NextPoll]_vars

\* C11: no OID maps to an empty set: an OID is a key of the inverse watch map
\* only while a subscriber watches it, and it is in the poll group only while
\* a requester holds membership.
NoEmptySets ==
    /\ \A oid \in DOMAIN oidToFeedbacks :
          /\ oidToFeedbacks[oid] # {}
          /\ \E id \in DOMAIN feedbackToOid : feedbackToOid[id] = oid
    /\ \A oid \in DOMAIN pollGroup : pollGroup[oid] # {}
    /\ getOidsToPoll(pollGroup) = DOMAIN pollGroup

\* one OID lost its last watcher and its last requester while another OID
\* keeps a watcher and a requester
NoEmptySetsWitness ==
    /\ DOMAIN oidToFeedbacks = {OID_B}
    /\ oidToFeedbacks[OID_B] = {"fb2"}
    /\ "fb1" \notin DOMAIN feedbackToOid
    /\ DOMAIN pollGroup = {OID_B}
    /\ pollGroup[OID_B] = {"act1"}

\* C12: when a subscriber that watches oidA is registered again for another
\* OID oidB, it is no longer among the watchers of oidA, it is among those of
\* oidB, getOidForFeedback gives oidB, the subscriber count is unchanged, the
\* other watchers of oidA stay, and oidA is no longer a watched OID when the
\* subscriber was its only watcher.
ReRegistrationMoves ==
    [][\A id \in TrackerFeedbackIds, rawOid \in TrackerOids :
          (/\ addFeedback(id, rawOid)
           /\ id \in DOMAIN feedbackToOid
           /\ isAcceptedOid(trimOid(rawOid))
           /\ feedbackToOid[id] # trimOid(rawOid)) =>
              LET oidA == feedbackToOid[id]
                  oidB == trimOid(rawOid)
              IN  /\ id \notin getFeedbacksForOid(oidToFeedbacks', oidA)
                  /\ id \in getFeedbacksForOid(oidToFeedbacks', oidB)
                  /\ getOidForFeedback(feedbackToOid', id) = oidB
                  /\ getFeedbackCount(feedbackToOid') = getFeedbackCount(feedbackToOid)
                  /\ getFeedbacksForOid(oidToFeedbacks', oidA) =
                         getFeedbacksForOid(oidToFeedbacks, oidA) \ {id}
                  /\ (getFeedbacksForOid(oidToFeedbacks, oidA) = {id}
                         => oidA \notin getAllWatchedOids(oidToFeedbacks'))]_vars

\* three subscribers are registered: fb1 and fb2 watch one OID, fb3 another
ReRegistrationMovesWitness ==
    /\ getFeedbackCount(feedbackToOid) = 3
    /\ getOidForFeedback(feedbackToOid, "fb1") = OID_B
    /\ getFeedbacksForOid(oidToFeedbacks, OID_B) = {"fb1", "fb2"}
    /\ getFeedbacksForOid(oidToFeedbacks, OID_A) = {"fb3"}
    /\ getAllWatchedOids(oidToFeedbacks) = {OID_A, OID_B}

\* C13: poll-group membership is counted per requester: adding a requester
\* to an OID adds exactly that requester to the members of that OID, removing
\* takes exactly that requester away, the members of every other OID stay as
\* they were, removing from an OID that is not in the group changes nothing,
\* and an OID is in getOidsToPoll exactly while it has a member.
PollGroupCountsRequesters ==
    [][/\ \A oid \in PollGroupOids, r \in PollRequesterIds :
             (addToPollGroup(oid, r) /\ isAcceptedOid(trimOid(oid))) =>
                 /\ membersOf(pollGroup', trimOid(oid)) =
                        membersOf(pollGroup, trimOid(oid)) \cup {r}
                 /\ trimOid(oid) \in getOidsToPoll(pollGroup')
                 /\ \A other \in PollKeys \ {trimOid(oid)} :
                        membersOf(pollGroup', other) = membersOf(pollGroup, other)
       /\ \A oid \in PollKeys, r \in PollRequesterIds \cup PollFeedbackIds :
             removeFromPollGroup(oid, r) =>
                 /\ membersOf(pollGroup', oid) = membersOf(pollGroup, oid) \ {r}
                 /\ (oid \in getOidsToPoll(pollGroup') <=> membersOf(pollGroup, oid) \ {r} # {})
                 /\ (oid \notin getOidsToPoll(pollGroup) => pollGroup' = pollGroup)
                 /\ \A other \in PollKeys \ {oid} :
                        membersOf(pollGroup', other) = membersOf(pollGroup, other)]_vars

\* two requesters were added to one OID and one of them was removed again,
\* while another OID is polled for a requester of its own
PollGroupCountsRequestersWitness ==
    /\ getOidsToPoll(pollGroup) = {OID_A, OID_B}
    /\ membersOf(pollGroup, OID_A) = {"act2"}
    /\ membersOf(pollGroup, OID_B) = {"act1", "act2"}
    /\ DOMAIN feedbackToOid = {}

\* C14: after updateFeedback(id, newOid, shouldPoll) to another OID, or after
\* removeFeedback(id), the id is neither a watcher nor a poll-group member of
\* its old OID; after an accepted addFeedback or updateFeedback the id is a
\* poll-group member of the new OID exactly when shouldPoll was given.
NoStaleMembership ==
    [][/\ \A id \in PollFeedbackIds, rawOid \in PollOids, shouldPoll \in BOOLEAN :
             (subscribe(id, rawOid, shouldPoll) \/ updateSubscription(id, rawOid, shouldPoll)) =>
                 /\ (id \in DOMAIN feedbackToOid /\ feedbackToOid[id] # trimOid(rawOid)) =>
                        /\ id \notin getFeedbacksForOid(oidToFeedbacks', feedbackToOid[id])
                        /\ id \notin membersOf(pollGroup', feedbackToOid[id])
                 /\ isAcceptedOid(trimOid(rawOid)) =>
                        /\ getOidForFeedback(feedbackToOid', id) = trimOid(rawOid)
                        /\ (id \in membersOf(pollGroup', trimOid(rawOid)) <=> shouldPoll)
                        /\ (shouldPoll => trimOid(rawOid) \in getOidsToPoll(pollGroup'))
       /\ \A id \in PollFeedbackIds :
             (unsubscribe(id) /\ id \in DOMAIN feedbackToOid) =>
                 /\ id \notin getFeedbacksForOid(oidToFeedbacks', feedbackToOid[id])
                 /\ id \notin membersOf(pollGroup', feedbackToOid[id])
                 /\ id \notin DOMAIN feedbackToOid']_vars

\* fb1 watches and polls one OID, fb2 watches another without polling it,
\* and no other OID is polled or watched
NoStaleMembershipWitness ==
    /\ getOidForFeedback(feedbackToOid, "fb1") = OID_B
    /\ getOidForFeedback(feedbackToOid, "fb2") = OID_C
    /\ getAllWatchedOids(oidToFeedbacks) = {OID_B, OID_C}
    /\ getOidsToPoll(pollGroup) = {OID_B}
    /\ membersOf(pollGroup, OID_B) = {"fb1"}

\* the OIDs handed to the session by the call a task makes: the OID list of
\* session.get, the OID of session.set and session.walk, and for session.trap
\* and session.inform the trimmed enterprise OID and the OIDs of the varbinds
\* validateVarbinds returns
transportOids(task) ==
    IF task.kind \in {"trap", "inform"}
    THEN (IF task.isOid THEN {trimOid(task.oids[1])} ELSE {})
         \cup {trimOid(task.varbinds[i].oid) : i \in 1..Len(task.varbinds)}
    ELSE IF task.kind = "set"
    THEN {task.varbinds[i].oid : i \in 1..Len(task.varbinds)}
    ELSE {task.oids[i] : i \in 1..Len(task.oids)}

isCanonical(oid) == oid = trimOid(oid) /\ (Len(oid) > 0 => Head(oid) \notin WhiteSpace \cup {"."})

\* C15: every OID given to the session transport is trimmed and valid, and a
\* setOid or walk with an invalid OID, or a getOid with no valid OID, makes no
\* transport call and leaves no task in the queue.
OnlyValidOidsReachTransport ==
    /\ \A task \in outstanding : \A oid \in transportOids(task) :
          isCanonical(oid) /\ isValidSnmpOid(oid)
    /\ canCall =>
          /\ \A oid \in QueueOidInputs : ~isValidSnmpOid(trimOid(oid)) =>
                \A after \in {setOidOp(currentQueue, session, oid, "Integer", 5),
                               walkOp(currentQueue, session, oid)} :
                    after.outstanding = outstanding /\ after.queue = queue
          /\ \A oids \in QueueGetInputs : filterOids(oids) = << >> =>
                LET after == getOidOp(currentQueue, session, oids)
                IN  after.outstanding = outstanding /\ after.queue = queue

\* a trap whose enterprise OID and varbind OID were given untrimmed is with
\* the session, a get whose list held an invalid OID has been accepted and a
\* call with an invalid OID has been turned away
OnlyValidOidsReachTransportWitness ==
    /\ \E task \in outstanding :
          /\ task.kind = "trap" /\ task.isOid
          /\ task.oids[1] = RAW_SPACE_C
          /\ task.varbinds = <<VB_OUT_OK>>
          /\ transportOids(task) = {OID_C, OID_B}
    /\ \E i \in 1..Len(promise) : promise[i] = "rejected_invalid_oid"
    /\ \E i \in 1..Len(queue) : queue[i].kind = "get" /\ queue[i].oids = <<OID_B>>

\* C16: when a getOid or a walk is rejected with the transport's error, no
\* varbind the failed request delivered has been cached: the step that
\* rejects it caches nothing and none of its earlier callbacks has changed
\* the cache.
FailedReadLeavesCacheAlone ==
    [][\A task \in outstanding :
          (/\ task.kind \in {"get", "walk"}
           /\ promise'[task.id] = "rejected_transport") =>
              /\ task.id \notin delivered
              /\ oidValues' = oidValues]_vars

\* C17: every task that waits in the queue when configUpdated starts is
\* discarded by it, and a discarded task is never dispatched afterwards: it
\* never enters the queue again, never makes a session call and its promise
\* never settles, whichever session is open.
DiscardedTasksNeverRun ==
    [][/\ \A ok \in BOOLEAN, paths \in QueueWalkPaths :
             configUpdated(ok, paths) => \A id \in queuedIds : isCleared(id)'
       /\ \A id \in callIds :
             isCleared(id) =>
                 /\ isCleared(id)'
                 /\ (dispatched' # << >> => dispatched'[1].id # id)]_vars

\* the second call was discarded by a reconfiguration while the first was
\* with the session; the walk of the new configuration has run since
DiscardedTasksNeverRunWitness ==
    /\ phase = "running"
    /\ Len(promise) = 3
    /\ promise[1] # "pending"
    /\ isCleared(2)
    /\ promise[3] = "resolved"
    /\ dispatched # << >> /\ dispatched[1].id = 3

(***************************************************************************)
(* The module's life from init to destroy with everything that can be      *)
(* scheduled: queued requests, the poll timer, the two throttled calls and *)
(* the trap listener.  A session that has been closed calls back with an   *)
(* error and without varbinds.                                             *)
(***************************************************************************)
LifeSubscribed == {<< >>, <<OID_A>>, <<OID_A, RAW_DOT_B>>}
LifeWalkPaths == {<< >>, <<OID_A>>}
LifeResponses == {<<VB_A1>>}

NextLifecycle ==
    \/ \E ok \in BOOLEAN, paths \in LifeWalkPaths, traps \in BOOLEAN, polls \in BOOLEAN,
          subscribed \in LifeSubscribed : initWith(ok, paths, traps, polls, subscribed)
    \/ \E ok \in BOOLEAN, traps \in BOOLEAN, polls \in BOOLEAN :
          configUpdatedWith(ok, << >>, traps, polls, <<OID_A>>)
    \/ destroy
    \/ \E subscribed \in LifeSubscribed : pollTimerFires(subscribed)
    \/ throttledBatchGetTimer
    \/ throttledFeedbackIdCheck
    \/ addFeedback("fb1", OID_A)
    \/ \E varbinds \in LifeResponses : processTrap(TRUE, varbinds)
    \/ \E task \in outstanding, error \in BOOLEAN, varbinds \in LifeResponses :
          (session = "open" \/ error) /\ getCallback(task, error, ~error, varbinds)
    \/ \E task \in outstanding, varbinds \in LifeResponses :
          session = "open" /\ feedCb(task, varbinds)
    \/ \E task \in outstanding, error \in BOOLEAN :
          (session = "open" \/ error) /\ doneCb(task, error)
    \/ onInterval

SpecLifecycle == Init /\ [][NextLifecycle]_vars

\* C18: once destroy has run the queue is empty and nothing is dispatched
\* from it, the poll timer is not set, neither throttledFeedbackIdCheck nor
\* throttledBatchGet has a call scheduled and no feedback batch is
\* dispatched, the trap listener is not open and the session is not open.
DestroyedIsQuiet ==
    [][phase' = "destroyed" =>
          /\ queue' = << >>
          /\ ~pollTimer'
          /\ ~checkArmed'
          /\ batchGet' = "idle"
          /\ listener' # "open"
          /\ session' # "open"
          /\ phase = "destroyed" =>
                /\ dispatched' = dispatched
                /\ outstanding' \subseteq outstanding
                /\ Len(promise') = Len(promise)
                /\ lastBatch' = lastBatch
                /\ oidValues' = oidValues]_vars

\* destroy has run while a request was with the session, feedback ids
\* waited for the throttled check, OIDs waited for the batch get and the
\* listener was open; the request has been answered with an error since
DestroyedIsQuietWitness ==
    /\ phase = "destroyed"
    /\ session = "closed"
    /\ listener = "closed"
    /\ feedbackIdsToCheck = {"fb1"}
    /\ pendingOids # << >>
    /\ outstanding = {}
    /\ \E id \in callIds : promise[id] = "rejected_transport"

(***************************************************************************)
(* Everything that stores an OID: subscriptions and poll requests with     *)
(* OIDs as the user typed them, and the varbinds of read responses, walks  *)
(* and traps, whose OIDs are the ones net-snmp decoded from the wire.      *)
(***************************************************************************)
StoredOids == {RAW_DOT_B, RAW_SPACE_C, RAW_SPACE_DOT_A, RAW_LEADING_ZERO}
StoredKeys == {OID_B, OID_C}
StoredResponses == {<<VB_A1>>, <<VB_A_NOSUCHOBJECT, VB_B1>>}

NextStored ==
    \/ init(TRUE, << >>)
    \/ \E oid \in StoredOids, shouldPoll \in BOOLEAN : subscribe("fb1", oid, shouldPoll)
    \/ unsubscribe("fb1")
    \/ \E oid \in StoredOids : addToPollGroup(oid, "act1")
    \/ \E oid \in StoredKeys : removeFromPollGroup(oid, "act1")
    \/ Len(promise) < MaxReads /\ getOid(<<RAW_SPACE_DOT_A, OID_A, RAW_DOT_B>>)
    \/ Len(promise) < MaxReads /\ walk(RAW_SPACE_C)
    \/ \E task \in outstanding, varbinds \in StoredResponses :
          getCallback(task, FALSE, TRUE, varbinds)
    \/ \E task \in outstanding, varbinds \in StoredResponses : feedCb(task, varbinds)
    \/ \E task \in outstanding : doneCb(task, FALSE)
    \/ \E varbinds \in StoredResponses : processTrap(TRUE, varbinds)
    \/ onInterval

SpecStored == Init /\ [][NextStored]_vars

storedOids ==
    DOMAIN oidValues \cup DOMAIN oidToFeedbacks \cup DOMAIN pollGroup
        \cup {feedbackToOid[id] : id \in DOMAIN feedbackToOid}

MaxLen == 4
MaxApplications == 3
TrimAlphabet == {".", " ", "\t", "1"}
TrimInputs == UNION {[1..n -> TrimAlphabet] : n \in 0..MaxLen}

InitTrim ==
    /\ InitState
    /\ argument \in TrimInputs
    /\ results = << >>

\* results[1] = trimOid(argument), results[n + 1] = trimOid(results[n])
applyTrimOid ==
    /\ Len(results) < MaxApplications
    /\ results' = Append(results, trimOid(IF results = << >> THEN argument
                                          ELSE results[Len(results)]))
    /\ UNCHANGED <<phase, session, queueVars, cacheVars, observed, trackerVars, hostVars,
                   argument>>

NextTrim == applyTrimOid

SpecTrim == InitTrim /\ [][NextTrim]_vars

\* C20: trimOid is idempotent: trimming what trimOid returned gives it back
\* unchanged, for every string of dots, whitespace and digits.
TrimOidIsIdempotent ==
    Len(results) >= 2 => results[2] = results[1]

(***************************************************************************)
(* isValidSnmpOid applied to a string of digits, dots, a letter and a      *)
(* blank.                                                                  *)
(***************************************************************************)
OidAlphabet == {"0", "1", "2", "3", ".", "a", " "}
OidInputs == UNION {[1..n -> OidAlphabet] : n \in 0..MaxLen}

InitValid ==
    /\ InitState
    /\ argument \in OidInputs
    /\ results = << >>

\* results[1] = isValidSnmpOid(argument)
applyIsValidSnmpOid ==
    /\ results = << >>
    /\ results' = <<isValidSnmpOid(argument)>>
    /\ UNCHANGED <<phase, session, queueVars, cacheVars, observed, trackerVars, hostVars,
                   argument>>

NextValid == applyIsValidSnmpOid

SpecValid == InitValid /\ [][NextValid]_vars

\* the pieces of s between its dots
RECURSIVE arcsOf(_)
arcsOf(s) ==
    LET dots == {i \in 1..Len(s) : s[i] = "."}
    IN  IF dots = {}
        THEN <<s>>
        ELSE LET first == CHOOSE i \in dots : \A j \in dots : i <= j
             IN  <<SubSeq(s, 1, first - 1)>> \o arcsOf(SubSeq(s, first + 1, Len(s)))

isDecimal(arc) == Len(arc) > 0 /\ \A i \in 1..Len(arc) : arc[i] \in Digits

\* at least two arcs, the first one 0, 1 or 2, every later one 0 or a decimal
\* number without a leading zero
isOidByArcs(s) ==
    LET arcs == arcsOf(s)
    IN  /\ Len(arcs) >= 2
        /\ arcs[1] \in {<<"0">>, <<"1">>, <<"2">>}
        /\ \A k \in 2..Len(arcs) :
              isDecimal(arcs[k]) /\ (Len(arcs[k]) > 1 => arcs[k][1] # "0")

DecimalChars == <<"0", "1", "2", "3", "4", "5", "6", "7", "8", "9">>
HexChars == DecimalChars \o <<"a", "b", "c", "d", "e", "f">>
UpperHexChars == DecimalChars \o <<"A", "B", "C", "D", "E", "F">>

isHexChar(c) == \E d \in 1..16 : HexChars[d] = c \/ UpperHexChars[d] = c
hexValue(c) == (CHOOSE d \in 1..16 : HexChars[d] = c \/ UpperHexChars[d] = c) - 1

RECURSIVE stripZeros(_)
stripZeros(digits) ==
    IF Len(digits) > 1 /\ Head(digits) = 0 THEN stripZeros(Tail(digits)) ELSE digits

\* digits * factor + carry, for a small factor
RECURSIVE timesPlus(_, _, _)
timesPlus(digits, factor, carry) ==
    IF digits = << >>
    THEN IF carry = 0 THEN << >> ELSE timesPlus(<< >>, factor, carry \div 10) \o <<carry % 10>>
    ELSE LET n == digits[Len(digits)] * factor + carry
         IN  timesPlus(SubSeq(digits, 1, Len(digits) - 1), factor, n \div 10) \o <<n % 10>>

\* quotient and remainder of digits divided by a small divisor
RECURSIVE divideBy(_, _, _, _)
divideBy(digits, divisor, quotient, remainder) ==
    IF digits = << >>
    THEN [quotient |-> stripZeros(IF quotient = << >> THEN <<0>> ELSE quotient),
          remainder |-> remainder]
    ELSE LET n == remainder * 10 + Head(digits)
         IN  divideBy(Tail(digits), divisor, Append(quotient, n \div divisor), n % divisor)

\* a <= b for magnitudes without leading zeros
magnitudeLeq(a, b) ==
    \/ Len(a) < Len(b)
    \/ /\ Len(a) = Len(b)
       /\ \A i \in 1..Len(a) : (\A j \in 1..(i - 1) : a[j] = b[j]) => a[i] <= b[i]

bigInt(negative, digits) ==
    LET magnitude == stripZeros(digits)
    IN  [negative |-> negative /\ magnitude # <<0>>, magnitude |-> magnitude]

\* the value of a string of hexadecimal digits
RECURSIVE hexToMagnitude(_, _)
hexToMagnitude(hex, acc) ==
    IF hex = << >>
    THEN stripZeros(acc)
    ELSE hexToMagnitude(Tail(hex), timesPlus(acc, 16, hexValue(Head(hex))))

\* BigInt(string): blanks are trimmed, the empty string is 0n, a decimal
\* literal may carry a sign, a literal with the prefix 0x is hexadecimal;
\* anything else is a SyntaxError (literals with the prefixes 0o and 0b are
\* not among the inputs)
toBigInt(raw) ==
    LET text == trimEnd(trimStart(raw))
        signed == Len(text) > 0 /\ text[1] \in {"-", "+"}
        body == IF signed THEN Tail(text) ELSE text
    IN  IF text = << >>
        THEN [threw |-> FALSE, value |-> bigInt(FALSE, <<0>>)]
        ELSE IF Len(text) > 2 /\ text[1] = "0" /\ text[2] \in {"x", "X"}
                  /\ \A i \in 3..Len(text) : isHexChar(text[i])
        THEN [threw |-> FALSE,
              value |-> bigInt(FALSE, hexToMagnitude(SubSeq(text, 3, Len(text)), <<0>>))]
        ELSE IF Len(body) > 0 /\ \A i \in 1..Len(body) : body[i] \in Digits
        THEN [threw |-> FALSE,
              value |-> bigInt(text[1] = "-", [i \in 1..Len(body) |-> hexValue(body[i])])]
        ELSE [threw |-> TRUE, value |-> bigInt(FALSE, <<0>>)]

\* 18446744073709551615n
UINT64_MAX == <<1, 8, 4, 4, 6, 7, 4, 4, 0, 7, 3, 7, 0, 9, 5, 5, 1, 6, 1, 5>>

\* n.toString(16) for n >= 0
RECURSIVE toHexString(_)
toHexString(magnitude) ==
    LET qr == divideBy(magnitude, 16, << >>, 0)
    IN  (IF qr.quotient = <<0>> THEN << >> ELSE toHexString(qr.quotient))
            \o <<HexChars[qr.remainder + 1]>>

\* a hexadecimal string left as it is, without padding
padStartNone(text, length, fill) == text

\* String.padStart(length, fill) for a fill of one character
padStart(text, length, fill) ==
    IF Len(text) >= length THEN text ELSE [i \in 1..(length - Len(text)) |-> fill] \o text

\* Buffer.from(hex, 'hex'): one byte for every complete pair of digits, up
\* to the first pair that is not hexadecimal
RECURSIVE bufferFromHex(_)
bufferFromHex(hex) ==
    IF Len(hex) < 2 \/ ~isHexChar(hex[1]) \/ ~isHexChar(hex[2])
    THEN << >>
    ELSE <<16 * hexValue(hex[1]) + hexValue(hex[2])>> \o bufferFromHex(SubSeq(hex, 3, Len(hex)))

\* buffer.toString('hex')
RECURSIVE bufferToHex(_)
bufferToHex(buffer) ==
    IF buffer = << >>
    THEN << >>
    ELSE <<HexChars[(Head(buffer) \div 16) + 1], HexChars[(Head(buffer) % 16) + 1]>>
             \o bufferToHex(Tail(buffer))

\* buffer.slice(start, end) for 0 <= start, end <= buffer.length
slice(buffer, start, end) == SubSeq(buffer, start + 1, end)

\* bufferToBigInt(buffer, start, end): BigInt('0x' + hex), which is a
\* SyntaxError when there is no digit after the prefix
bufferToBigInt(buffer, start, end) ==
    LET hex == bufferToHex(slice(buffer, start, end))
    IN  IF hex = << >>
        THEN [threw |-> TRUE, value |-> bigInt(FALSE, <<0>>)]
        ELSE [threw |-> FALSE, value |-> bigInt(FALSE, hexToMagnitude(hex, <<0>>))]

converted(value) == [threw |-> FALSE, error |-> "none", value |-> value]
conversionError(error) == [threw |-> TRUE, error |-> error, value |-> "none"]

\* case snmp.ObjectType.Counter64
convertCounter64(raw) ==
    LET n == toBigInt(raw)
    IN  IF n.threw
        THEN conversionError("Cannot convert to Counter64")
        ELSE IF n.value.negative \/ ~magnitudeLeq(n.value.magnitude, UINT64_MAX)
        THEN conversionError("Counter64 value is out of range")
        ELSE converted(bufferFromHex(padStart(toHexString(n.value.magnitude), 16, "0")))

INT32_MIN == bigInt(TRUE, <<2, 1, 4, 7, 4, 8, 3, 6, 4, 8>>)
INT32_MAX == bigInt(FALSE, <<2, 1, 4, 7, 4, 8, 3, 6, 4, 7>>)
UINT32_MAX == bigInt(FALSE, <<4, 2, 9, 4, 9, 6, 7, 2, 9, 5>>)
\* 2^53: up to here every integer is a Number
MaxSafeMagnitude == <<9, 0, 0, 7, 1, 9, 9, 2, 5, 4, 7, 4, 0, 9, 9, 2>>

\* a <= b for two integers
bigIntLeq(a, b) ==
    IF a.negative
    THEN ~b.negative \/ magnitudeLeq(b.magnitude, a.magnitude)
    ELSE ~b.negative /\ magnitudeLeq(a.magnitude, b.magnitude)

LowerCaseLetters ==
    <<"a", "b", "c", "d", "e", "f", "g", "h", "i", "j", "k", "l", "m",
      "n", "o", "p", "q", "r", "s", "t", "u", "v", "w", "x", "y", "z">>
UpperCaseLetters ==
    <<"A", "B", "C", "D", "E", "F", "G", "H", "I", "J", "K", "L", "M",
      "N", "O", "P", "Q", "R", "S", "T", "U", "V", "W", "X", "Y", "Z">>

toLowerCase(text) ==
    [i \in 1..Len(text) |->
        IF \E k \in 1..26 : UpperCaseLetters[k] = text[i]
        THEN LowerCaseLetters[CHOOSE k \in 1..26 : UpperCaseLetters[k] = text[i]]
        ELSE text[i]]

trim(text) == trimEnd(trimStart(text))

\* the longest prefix of text made of characters that satisfy the test
RECURSIVE digitPrefix(_, _)
digitPrefix(text, hex) ==
    IF text # << >> /\ (IF hex THEN isHexChar(Head(text)) ELSE Head(text) \in Digits)
    THEN <<Head(text)>> \o digitPrefix(Tail(text), hex)
    ELSE << >>

\* Number.parseInt(raw, radix) for radix 10 and 16: leading blanks and a
\* sign are skipped, with radix 16 a prefix 0x too, and the digits that
\* follow are read; NaN when there is none
parseInt(raw, radix) ==
    LET text == trimStart(raw)
        signed == text # << >> /\ Head(text) \in {"-", "+"}
        unsigned == IF signed THEN Tail(text) ELSE text
        prefixed == radix = 16 /\ Len(unsigned) >= 2 /\ unsigned[1] = "0"
                        /\ unsigned[2] \in {"x", "X"}
        digits == digitPrefix(IF prefixed THEN SubSeq(unsigned, 3, Len(unsigned))
                                          ELSE unsigned, radix = 16)
        negative == signed /\ Head(text) = "-"
    IN  IF digits = << >>
        THEN [isNaN |-> TRUE, value |-> bigInt(FALSE, <<0>>)]
        ELSE [isNaN |-> FALSE,
              value |-> IF radix = 16
                        THEN bigInt(negative, hexToMagnitude(digits, <<0>>))
                        ELSE bigInt(negative, [i \in 1..Len(digits) |-> hexValue(digits[i])])]

\* /^-?0x[0-9a-fA-F]+$/i and /^0x[0-9a-fA-F]+$/i
isHexLiteral(text, signAllowed) ==
    LET unsigned == IF signAllowed /\ text # << >> /\ Head(text) = "-" THEN Tail(text) ELSE text
    IN  /\ Len(unsigned) > 2
        /\ unsigned[1] = "0"
        /\ unsigned[2] \in {"x", "X"}
        /\ \A i \in 3..Len(unsigned) : isHexChar(unsigned[i])

\* a magnitude of 2^53 or more halved until it has 53 bits, with the last
\* bit dropped (guard) and whether any bit dropped before it was set (sticky)
RECURSIVE toMantissa(_, _, _, _)
toMantissa(digits, shifts, guard, sticky) ==
    IF magnitudeLeq(MaxSafeMagnitude, digits)
    THEN LET half == divideBy(digits, 2, << >>, 0)
         IN  toMantissa(half.quotient, shifts + 1, half.remainder,
                        IF guard = 1 THEN 1 ELSE sticky)
    ELSE [mantissa |-> digits, shifts |-> shifts, guard |-> guard, sticky |-> sticky]

RECURSIVE timesPowerOfTwo(_, _)
timesPowerOfTwo(digits, shifts) ==
    IF shifts = 0 THEN digits ELSE timesPowerOfTwo(timesPlus(digits, 2, 0), shifts - 1)

\* a mantissa of at most 53 bits with the bits shifted out rounded to
\* nearest, ties to the even mantissa, and shifted back
roundToEven(m) ==
    stripZeros(timesPowerOfTwo(
        timesPlus(m.mantissa, 1,
                  IF m.guard = 1 /\ (m.sticky = 1 \/ m.mantissa[Len(m.mantissa)] % 2 = 1)
                  THEN 1 ELSE 0),
        m.shifts))

\* the Number nearest to an integer: the integer itself up to 2^53 (no input
\* offered is large enough for Infinity)
toNumber(magnitude) == roundToEven(toMantissa(magnitude, 0, 0, 0))

\* the first k digits of n followed by zeros, and the same with the k digits
\* counted up by one
lowerDigits(n, k) == [i \in 1..Len(n) |-> IF i <= k THEN n[i] ELSE 0]
upperDigits(n, k) ==
    stripZeros(timesPlus(SubSeq(n, 1, k), 1, 1)) \o [i \in 1..(Len(n) - k) |-> 0]

\* the decimals of k significant digits next to n that convert to n
roundTripDigits(n, k) == {c \in {lowerDigits(n, k), upperDigits(n, k)} : toNumber(c) = n}

\* the smallest number of significant digits that round-trips, from k on
RECURSIVE fewestDigits(_, _)
fewestDigits(n, k) ==
    IF k >= Len(n) \/ roundTripDigits(n, k) # {} THEN k ELSE fewestDigits(n, k + 1)

\* n is not farther from lower, its first k digits, than from the next
\* decimal of k digits: twice the rest of n is at most 10^(Len(n) - k)
lowerIsCloser(n, k) ==
    magnitudeLeq(stripZeros(timesPlus(SubSeq(n, k + 1, Len(n)), 2, 0)),
                 <<1>> \o [i \in 1..(Len(n) - k) |-> 0])

closestDigits(n, k, good, lower) ==
    IF lower \in good /\ (good = {lower} \/ lowerIsCloser(n, k))
    THEN lower
    ELSE CHOOSE c \in good : c # lower

digitsOfLength(n, k) == closestDigits(n, k, roundTripDigits(n, k), lowerDigits(n, k))

\* Number::toString picks the decimal with the fewest significant digits
\* that converts to the Number, the closest one if there are several (the
\* lower one here at equal distance): its digits, padded with zeros
shortestDigits(n) == digitsOfLength(n, fewestDigits(n, 1))

RECURSIVE stripTrailingZeros(_)
stripTrailingZeros(digits) ==
    IF Len(digits) > 1 /\ digits[Len(digits)] = 0
    THEN stripTrailingZeros(SubSeq(digits, 1, Len(digits) - 1))
    ELSE digits

\* the decimal digits of a small natural number
RECURSIVE digitsOf(_)
digitsOf(k) == IF k < 10 THEN <<k>> ELSE digitsOf(k \div 10) \o <<k % 10>>

decimalChars(digits) == [i \in 1..Len(digits) |-> DecimalChars[digits[i] + 1]]

\* d.ddd of the significant digits
fraction(significant) ==
    decimalChars(<<Head(significant)>>)
        \o (IF Len(significant) > 1 THEN <<".">> \o decimalChars(Tail(significant)) ELSE << >>)

\* the digits as they are up to 21 of them, with an exponent from there on
formatDigits(negative, digits) ==
    (IF negative THEN <<"-">> ELSE << >>)
        \o (IF Len(digits) <= 21
            THEN decimalChars(digits)
            ELSE fraction(stripTrailingZeros(digits))
                     \o <<"e", "+">> \o decimalChars(digitsOf(Len(digits) - 1)))

\* String(n) for a Number n that is an integer: its digits below 2^53, the
\* shortest digits padded with zeros below 10^21, and from there on the
\* shortest digits with an exponent
numberToString(n) ==
    formatDigits(n.negative,
                 IF magnitudeLeq(n.magnitude, MaxSafeMagnitude)
                 THEN n.magnitude
                 ELSE shortestDigits(n.magnitude))

\* a conversion that leaves out the check of the range
convertInt32SkipsRange(raw, signAllowed, min, max) ==
    LET isHex == isHexLiteral(trim(raw), signAllowed)
        parsed == IF isHex THEN parseInt(raw, 16) ELSE parseInt(raw, 10)
        n == bigInt(parsed.value.negative, toNumber(parsed.value.magnitude))
    IN  IF parsed.isNaN
        THEN conversionError("Cannot convert to integer")
        ELSE IF ~isHex /\ numberToString([negative |-> parsed.value.negative,
                                          magnitude |-> n.magnitude]) # trim(raw)
        THEN conversionError("Cannot convert to integer")
        ELSE converted(n)

\* case Integer and case Counter, Gauge, TimeTicks
convertInt32(raw, signAllowed, min, max) ==
    LET isHex == isHexLiteral(trim(raw), signAllowed)
        parsed == IF isHex THEN parseInt(raw, 16) ELSE parseInt(raw, 10)
        n == bigInt(parsed.value.negative, toNumber(parsed.value.magnitude))
    IN  IF parsed.isNaN
        THEN conversionError("Cannot convert to integer")
        ELSE IF ~isHex /\ numberToString([negative |-> parsed.value.negative,
                                          magnitude |-> n.magnitude]) # trim(raw)
        THEN conversionError("Cannot convert to integer")
        ELSE IF ~bigIntLeq(min, n) \/ ~bigIntLeq(n, max)
        THEN conversionError("Value is out of range")
        ELSE converted(n)

\* case snmp.ObjectType.Boolean
convertBoolean(raw) ==
    LET text == trim(toLowerCase(raw))
    IN  IF text \in {<<"t", "r", "u", "e">>, <<"1">>, <<"o", "n">>, <<"y", "e", "s">>}
        THEN converted(TRUE)
        ELSE IF text \in {<<"f", "a", "l", "s", "e">>, <<"0">>, <<"o", "f", "f">>, <<"n", "o">>}
        THEN converted(FALSE)
        ELSE conversionError("Cannot convert to Boolean")

\* case snmp.ObjectType.OID
convertOid(raw) ==
    IF isValidSnmpOid(trimOid(raw))
    THEN converted(trimOid(raw))
    ELSE conversionError("Cannot convert to OID")

\* varbind.value?.toString() ?? ''
rawOf(value) == IF value = <<"undefined">> THEN << >> ELSE value

\* the switch on the type; the conversions of Opaque and IpAddress are not
\* modelled and no varbind of these types is offered
convertValue(type, raw) ==
    CASE type = "Boolean" -> convertBoolean(raw)
      [] type = "Integer" -> convertInt32(raw, TRUE, INT32_MIN, INT32_MAX)
      [] type \in {"BitString", "OctetString"} -> converted(raw)
      [] type = "Null" -> converted("null")
      [] type = "OID" -> convertOid(raw)
      [] type \in {"Counter", "Gauge", "TimeTicks"} ->
            convertInt32(raw, FALSE, bigInt(FALSE, <<0>>), UINT32_MAX)
      [] type = "Counter64" -> convertCounter64(raw)
      [] type \notin {"Boolean", "Integer", "BitString", "OctetString", "Opaque", "Null",
                      "OID", "IpAddress", "Counter", "Gauge", "TimeTicks", "Counter64"} ->
            conversionError("Unsupported ObjectType")

validateAndConvertVarbind(varbind) ==
    IF ~isValidSnmpOid(trimOid(varbind.oid))
    THEN conversionError("Invalid OID")
    ELSE LET c == convertValue(varbind.type, rawOf(varbind.value))
         IN  IF c.threw
             THEN c
             ELSE converted([oid |-> trimOid(varbind.oid), type |-> varbind.type,
                             value |-> c.value])

(***************************************************************************)
(* validateAndConvertVarbind applied to a Counter64 varbind whose value is *)
(* a decimal string: powers of two, values around the limits of 32, 53 and *)
(* 64 bits, one digit followed by zeros, and their negatives.              *)
(***************************************************************************)
MaxBits == 65
MaxZeros == 20

\* 2^k, from its hexadecimal digits
powerOfTwo(k) ==
    hexToMagnitude(<<HexChars[2 ^ (k % 4) + 1]>> \o [i \in 1..(k \div 4) |-> "0"], <<0>>)

decimalString(negative, magnitude) ==
    (IF negative THEN <<"-">> ELSE << >>)
        \o [i \in 1..Len(magnitude) |-> DecimalChars[magnitude[i] + 1]]

Counter64Magnitudes ==
    {powerOfTwo(k) : k \in 0..MaxBits}
        \cup {timesPlus(powerOfTwo(k), 1, 1) : k \in 0..MaxBits}
        \cup {<<d>> \o [i \in 1..k |-> 0] : d \in 1..9, k \in 0..MaxZeros}
        \cup {<<d>> \o [i \in 1..k |-> 9] : d \in 1..9, k \in 0..MaxZeros}
        \cup {<<0>>, UINT64_MAX, <<2, 5, 5>>, <<4, 2, 9, 4, 9, 6, 7, 2, 9, 5>>}

Counter64Inputs ==
    {decimalString(FALSE, m) : m \in Counter64Magnitudes}
        \cup {decimalString(TRUE, m) : m \in Counter64Magnitudes \ {<<0>>}}

InitCounter64 ==
    /\ InitState
    /\ argument \in Counter64Inputs
    /\ results = << >>

\* results[1] = what validateAndConvertVarbind does with the value
applyValidateAndConvertVarbind ==
    /\ results = << >>
    /\ results' = <<validateAndConvertVarbind(
                        [oid |-> OID_B, type |-> "Counter64", value |-> argument])>>
    /\ UNCHANGED <<phase, session, queueVars, cacheVars, observed, trackerVars, hostVars,
                   argument>>

NextCounter64 == applyValidateAndConvertVarbind

SpecCounter64 == InitCounter64 /\ [][NextCounter64]_vars

\* the number a decimal string stands for
numberOf(text) ==
    IF text[1] = "-"
    THEN [negative |-> TRUE, magnitude |-> [i \in 1..(Len(text) - 1) |-> hexValue(text[i + 1])]]
    ELSE [negative |-> FALSE, magnitude |-> [i \in 1..Len(text) |-> hexValue(text[i])]]

isUint64(n) == ~n.negative /\ magnitudeLeq(n.magnitude, UINT64_MAX)

\* C22: a Counter64 value given as the decimal string of N in [0, 2^64-1]
\* is converted to a buffer of 8 bytes which bufferToBigInt reads back as N;
\* for N below 0 or above 2^64-1 the conversion throws an out-of-range error
\* and gives no value.
Counter64RoundTrip ==
    results # << >> =>
        LET r == results[1]
        IN  IF isUint64(numberOf(argument))
            THEN /\ ~r.threw
                 /\ r.value.oid = OID_B
                 /\ r.value.type = "Counter64"
                 /\ Len(r.value.value) = 8
                 /\ \A i \in 1..8 : r.value.value[i] \in 0..255
                 /\ ~bufferToBigInt(r.value.value, 0, Len(r.value.value)).threw
                 /\ bufferToBigInt(r.value.value, 0, Len(r.value.value)).value
                        = numberOf(argument)
            ELSE /\ r.threw
                 /\ r.error = "Counter64 value is out of range"
                 /\ r.value = "none"

\* 2^64-1 has been converted to eight bytes of 255
Counter64RoundTripWitness ==
    /\ argument = decimalString(FALSE, UINT64_MAX)
    /\ results # << >>
    /\ ~results[1].threw
    /\ results[1].value.value = <<255, 255, 255, 255, 255, 255, 255, 255>>

(***************************************************************************)
(* validateVarbinds applied to lists of varbinds, some of which convert    *)
(* and some of which do not.                                               *)
(***************************************************************************)
\* varbinds.map without the try and catch: the elements that do not convert
\* are left out
RECURSIVE validateVarbindsDropsFailing(_)
validateVarbindsDropsFailing(varbinds) ==
    IF varbinds = << >>
    THEN converted(<< >>)
    ELSE LET r == validateAndConvertVarbind(Head(varbinds))
             rest == validateVarbindsDropsFailing(Tail(varbinds)).value
         IN  converted(IF r.threw THEN rest ELSE <<r.value>> \o rest)

\* varbinds.map((varbind, index) => ...) from the element at position k on
RECURSIVE mapVarbinds(_, _, _)
mapVarbinds(varbinds, k, done) ==
    IF k > Len(varbinds)
    THEN converted(done)
    ELSE LET r == validateAndConvertVarbind(varbinds[k])
         IN  IF r.threw
             THEN conversionError(<<"Varbind at index ", k - 1, ": ", r.error>>)
             ELSE mapVarbinds(varbinds, k + 1, Append(done, r.value))

validateVarbinds(varbinds) == mapVarbinds(varbinds, 1, << >>)

MaxVarbinds == 3

VB_INTEGER == [oid |-> OID_B, type |-> "Integer", value |-> <<"5">>]
VB_INTEGER_BAD_OID == [oid |-> RAW_BAD, type |-> "Integer", value |-> <<"5">>]
VB_INTEGER_OVER ==
    [oid |-> OID_A, type |-> "Integer", value |-> decimalString(FALSE, powerOfTwo(31))]
VB_OCTETS == [oid |-> RAW_DOT_B, type |-> "OctetString", value |-> <<"o", "n">>]
VB_OID == [oid |-> RAW_SPACE_C, type |-> "OID", value |-> RAW_DOT_B]
VB_COUNTER64_OVER ==
    [oid |-> OID_A, type |-> "Counter64", value |-> decimalString(FALSE, powerOfTwo(64))]
VB_UNSUPPORTED == [oid |-> OID_A, type |-> "NoSuchObject", value |-> <<"undefined">>]

VarbindInputs ==
    {VB_INTEGER, VB_INTEGER_BAD_OID, VB_INTEGER_OVER, VB_OCTETS, VB_OID,
     VB_COUNTER64_OVER, VB_UNSUPPORTED}

VarbindLists == UNION {[1..n -> VarbindInputs] : n \in 0..MaxVarbinds}

InitVarbinds ==
    /\ InitState
    /\ argument \in VarbindLists
    /\ results = << >>

\* results[1] = what validateVarbinds does with the list
applyValidateVarbinds ==
    /\ results = << >>
    /\ results' = <<validateVarbinds(argument)>>
    /\ UNCHANGED <<phase, session, queueVars, cacheVars, observed, trackerVars, hostVars,
                   argument>>

NextVarbinds == applyValidateVarbinds

SpecVarbinds == InitVarbinds /\ [][NextVarbinds]_vars

\* the positions, counted from 0, of the elements that do not convert
failingIndexes(varbinds) ==
    {i \in 0..(Len(varbinds) - 1) : validateAndConvertVarbind(varbinds[i + 1]).threw}

\* C23: when some element of the list fails, validateVarbinds throws an error
\* whose message starts with 'Varbind at index i: ', i the position of the
\* first failing element, and yields no result, not even a partial one; when
\* none fails it returns the converted varbinds, as many and in the same
\* order.
FirstFailureIsReported ==
    results # << >> =>
        LET r == results[1]
            failing == failingIndexes(argument)
        IN  IF failing # {}
            THEN /\ r.threw
                 /\ r.value = "none"
                 /\ SubSeq(r.error, 1, 3)
                        = <<"Varbind at index ",
                            CHOOSE i \in failing : \A j \in failing : i <= j, ": ">>
            ELSE /\ ~r.threw
                 /\ Len(r.value) = Len(argument)
                 /\ \A k \in 1..Len(argument) :
                        r.value[k] = validateAndConvertVarbind(argument[k]).value

\* a list whose second and third elements fail has been reported at index 1
FirstFailureIsReportedWitness ==
    /\ argument = <<VB_OID, VB_INTEGER_OVER, VB_INTEGER_BAD_OID>>
    /\ results # << >>
    /\ results[1].threw
    /\ results[1].error = <<"Varbind at index ", 1, ": ", "Value is out of range">>

\* C24: after a reconfiguration whose configuration fails validation in
\* connectAgent there is no device session: the session is null, and every
\* task started from then on rejects with the session-not-initialized error
\* and makes no call on the previous, closed session.
FailedReconfigurationLeavesNoSession ==
    [][/\ (\E paths \in QueueWalkPaths : configUpdated(FALSE, paths)) => session' = "null"
       /\ dispatched' # dispatched /\ session' # "open" /\ hasValidOids(dispatched'[1]) =>
             /\ promise'[dispatched'[1].id] = "rejected_nosession"
             /\ outstanding' = outstanding]_vars

carriesValue(varbind) == varbind.type \notin AbsenceTypes

\* the fields of a cache state that a varbind can change
cacheView(cs) == <<cs.oidValues, cs.feedbackIdsToCheck, cs.checkArmed, cs.definitionsArmed>>

\* C25: a varbind that is marked as an error or has the type NoSuchObject,
\* NoSuchInstance or EndOfMibView changes neither the value cache nor the
\* dirty set and schedules no dispatch, whether a get response, a walk feed
\* or a notification delivers it: a list leaves these fields as the list
\* without such varbinds does, and a list of such varbinds only leaves them
\* as they are.
AbsenceChangesNothing ==
    [][\A varbinds \in CacheResponses :
          delivers(varbinds) =>
              /\ <<oidValues', feedbackIdsToCheck', checkArmed', definitionsArmed'>> =
                     cacheView(forEachHandleVarbind(currentCache, oidToFeedbacks,
                                                    SelectSeq(varbinds, carriesValue)))
              /\ (\A i \in 1..Len(varbinds) : ~carriesValue(varbinds[i])) =>
                     UNCHANGED <<oidValues, feedbackIdsToCheck, checkArmed,
                                 definitionsArmed>>]_vars

\* a get response with NoSuchInstance for a watched OID was discarded: nothing
\* is cached, nobody is marked and no dispatch is scheduled
AbsenceChangesNothingWitness ==
    /\ arrival = "get"
    /\ lastLog = "warn"
    /\ OID_B \in DOMAIN oidToFeedbacks /\ oidToFeedbacks[OID_B] = {"fb1"}
    /\ oidValues = << >>
    /\ feedbackIdsToCheck = {}
    /\ ~checkArmed
    /\ ~definitionsArmed

\* C26: the cache updates of one throttle window, however many, lead to one
\* call of checkFeedbacksById: the ids marked dirty stay in the dirty set
\* until that call, the call is given the whole set, the set is empty right
\* after it, and no further call is scheduled until a value is cached again.
OneDispatchPerWindow ==
    /\ [][throttledFeedbackIdCheck =>
             /\ checkArmed
             /\ lastBatch' = feedbackIdsToCheck
             /\ feedbackIdsToCheck' = {}
             /\ ~checkArmed']_vars
    /\ [][~throttledFeedbackIdCheck =>
             /\ feedbackIdsToCheck \subseteq feedbackIdsToCheck'
             /\ lastBatch' = lastBatch
             /\ feedbackIdsToCheck' # feedbackIdsToCheck => checkArmed']_vars

\* two deliveries marked one watcher each in the same window, and one call
\* was given both
OneDispatchPerWindowWitness ==
    /\ phase = "running"
    /\ oidToFeedbacks = (OID_A :> {"fb1"}) @@ (OID_B :> {"fb2"})
    /\ DOMAIN oidValues = {OID_A, OID_B}
    /\ lastBatch = {"fb1", "fb2"}
    /\ feedbackIdsToCheck = {}
    /\ ~checkArmed

\* a step in which subscribe callbacks run or the timer of throttledBatchGet
\* expires
batchGetStep ==
    \/ \E subscribed \in LifeSubscribed : pollTimerFires(subscribed)
    \/ throttledBatchGetTimer

\* C27: the OIDs that subscribe callbacks add to pendingOids within one
\* throttle window go out in a single getOid call: a call made for the batch
\* leaves pendingOids empty, and a window in which a call has gone out makes
\* no second one.
BatchGetIsOneCall ==
    [][batchGetStep =>
          /\ Len(promise') > Len(promise) => pendingOids' = << >>
          /\ batchGet # "idle" => Len(promise') = Len(promise)]_vars

\* C28: configUpdated cancels a pending call of throttledFeedbackIdCheck and
\* a pending call of throttledBatchGet: neither is still scheduled when the
\* reconfiguration, which subscribes nothing itself, has run.
ReconfigurationCancelsThrottles ==
    [][\A ok \in BOOLEAN, traps \in BOOLEAN :
          configUpdatedWith(ok, << >>, traps, FALSE, <<OID_A>>) =>
              /\ ~checkArmed'
              /\ batchGet' # "armed"]_vars

\* C29: at most one timeout of the poll timer is running at any time, and it
\* is the one this.pollTimer refers to: configUpdated leaves no timeout of
\* the previous configuration behind, only the one it sets itself when the
\* new configuration has an interval, and a configuration without an
\* interval sets none.
OnePollTimer ==
    /\ [](timers \in {0, 1} /\ pollTimer = (timers = 1))
    /\ [][\A polls \in BOOLEAN :
             timers' # (IF polls THEN 1 ELSE 0) =>
                 ~\E ok \in BOOLEAN, traps \in BOOLEAN :
                     configUpdatedWith(ok, << >>, traps, polls, <<OID_A>>)]_vars
    /\ [][timers' > timers =>
             \E ok \in BOOLEAN, paths \in LifeWalkPaths, traps \in BOOLEAN,
                subscribed \in LifeSubscribed :
                 \/ initWith(ok, paths, traps, TRUE, subscribed)
                 \/ configUpdatedWith(ok, << >>, traps, TRUE, <<OID_A>>)]_vars

\* the module polled, and a reconfiguration without an interval has cleared
\* the timer while the batch get of the last poll is still waiting
OnePollTimerWitness ==
    /\ phase = "running"
    /\ batchGet = "armed"
    /\ ~pollTimer
    /\ timers = 0

\* C30: at any moment at most one device session is open and at most one
\* trap receiver is listening, and they are the ones this.session and
\* this.receiver refer to, across init, repeated configUpdated and destroy.
OneSessionOneReceiver ==
    /\ sessions \in {0, 1}
    /\ receivers \in {0, 1}
    /\ (sessions = 1) = (session = "open")
    /\ (receivers = 1) = (listener = "open")

\* a reconfiguration without traps has closed the receiver and replaced the
\* session on which the walk of init is still waiting for its callback
OneSessionOneReceiverWitness ==
    /\ phase = "running"
    /\ listener = "closed"
    /\ receivers = 0
    /\ session = "open"
    /\ sessions = 1
    /\ \E task \in outstanding : task.kind = "walk"

\* the module without walk paths: its only calls of getOid are those of the
\* function of throttledBatchGet, made by pollOids at init, at
\* configUpdated and when the poll timer expires
NextBatch ==
    \/ \E ok \in BOOLEAN, traps \in BOOLEAN, polls \in BOOLEAN, subscribed \in LifeSubscribed :
          initWith(ok, << >>, traps, polls, subscribed)
    \/ \E ok \in BOOLEAN, traps \in BOOLEAN, polls \in BOOLEAN :
          configUpdatedWith(ok, << >>, traps, polls, <<OID_A>>)
    \/ destroy
    \/ \E subscribed \in LifeSubscribed : pollTimerFires(subscribed)
    \/ throttledBatchGetTimer
    \/ \E task \in outstanding, error \in BOOLEAN, varbinds \in LifeResponses :
          (session = "open" \/ error) /\ getCallback(task, error, ~error, varbinds)
    \/ onInterval

SpecBatch == Init /\ [][NextBatch]_vars

\* C31: an error of a passive operation never leaves the module. The
\* function of throttledBatchGet awaits the promise of its getOid call and
\* throttle drops the promise of the function, so this asks that no getOid
\* call made by throttledBatchGet (every call there is in SpecBatch) is ever
\* rejected, neither for a missing session nor with the transport's error.
BatchGetNeverRejects ==
    \A id \in callIds : ~isRejected(promise[id])

\* C32: every promise a call returned is eventually settled, those of the
\* tasks that snmpQueue.clear() removed before they were started included,
\* when the queue's interval fires and the session calls back for every
\* request.
EveryPromiseSettles ==
    \A id \in 1..MaxTasks : [](id \in callIds => <>isSettled(id))

(***************************************************************************)
(* The trap listener from bind to close, with notifications arriving       *)
(* whenever a receiver exists.                                             *)
(***************************************************************************)
ListenerNotifications == {<<VB_A1>>, <<VB_A2>>, <<VB_B1>>, <<VB_A_NOSUCHOBJECT>>}

NextListener ==
    \/ \E ok \in BOOLEAN : initBinds(ok)
    \/ \E ok \in BOOLEAN : initWith(ok, << >>, FALSE, FALSE, << >>)
    \/ \E ok \in BOOLEAN : configUpdatedBinds(ok)
    \/ \E ok \in BOOLEAN : configUpdatedWith(ok, << >>, FALSE, FALSE, << >>)
    \/ destroy
    \/ socketListening
    \/ socketError
    \/ \E varbinds \in ListenerNotifications : receiverCallback(varbinds)
    \/ addFeedback("fb1", OID_A)
    \/ throttledFeedbackIdCheck
    \/ debouncedUpdateDefinitions

SpecListener == Init /\ [][NextListener]_vars

\* closeListener has run: as part of a configUpdated that listens for no
\* traps, or of destroy
closeListenerStep ==
    \/ \E ok \in BOOLEAN : configUpdatedWith(ok, << >>, FALSE, FALSE, << >>)
    \/ destroy

\* C33: the listener goes from closed through the bind to listening and back
\* to closed. createListener's promise is resolved only by the socket's
\* 'listening' event, with a receiver in place; an error during the bind
\* rejects it and creates no receiver; closeListener leaves no receiver and
\* no open listener; and a notification changes the cache only while the
\* listener is listening.
ListenerStateMachine ==
    /\ []((listener = "open") = (receivers = 1) /\ receivers \in {0, 1})
    /\ [](listener = "open" => createListenerPromise = "resolved")
    /\ [](listener = "failed" => createListenerPromise = "rejected")
    /\ [][listener' = "open" /\ listener # "open" => listener = "binding"]_vars
    /\ [][listener' = "binding" => createListenerPromise' = "pending"]_vars
    /\ [][createListenerPromise' = "resolved" /\ createListenerPromise # "resolved" =>
             listener = "binding" /\ listener' = "open" /\ receivers' = 1]_vars
    /\ [][createListenerPromise' = "rejected" /\ createListenerPromise # "rejected" =>
             listener = "binding" /\ listener' = "failed" /\ receivers' = 0]_vars
    /\ [][closeListenerStep => listener' \in {"none", "closed"} /\ receivers' = 0]_vars
    /\ [][oidValues' # oidValues \/ feedbackIdsToCheck' \notin SUBSET feedbackIdsToCheck =>
             listener = "open"]_vars

\* a bind has failed after an earlier listener had received a notification
\* that is in the cache, and the failed listener has been closed since
ListenerStateMachineWitness ==
    /\ listener = "closed"
    /\ createListenerPromise = "rejected"
    /\ receivers = 0
    /\ OID_A \in DOMAIN oidValues
    /\ phase = "running"

(***************************************************************************)
(* SharedUDPSocketWrapper (wrapper.js): the constructor registers          *)
(* messageHandler on the shared socket, setAllowedAddress replaces the     *)
(* address, close removes the handler, and the shared socket hands every   *)
(* datagram it receives to the handlers that are registered.               *)
(***************************************************************************)
MaxDatagrams == 3
WrapperAddresses == {"10.0.0.1", "10.0.0.2", "10.0.0.10"}

wrapperUnchanged ==
    UNCHANGED <<phase, session, queueVars, cacheVars, observed, trackerVars, pollTimer,
                listener, batchGet, pendingOids, timers, sessions, receivers,
                createListenerPromise, utilVars>>

\* a handler that forwards every datagram
messageHandlerForwardsAll(allowed, rinfo) == TRUE

\* this.messageHandler: whether 'message' is emitted for the datagram
messageHandler(allowed, rinfo) == rinfo.address = allowed

\* a close that leaves the handler on the shared socket
closeKeepsHandler(listeners) == listeners

\* close(): sharedSocket.removeListener('message', this.messageHandler)
closeOp(listeners) == listeners \ {"messageHandler"}

\* new SharedUDPSocketWrapper(sharedSocket, port, allowedAddress)
newSharedUDPSocketWrapper(address) ==
    /\ wrapper = "none"
    /\ wrapper' = "constructed"
    /\ allowedAddress' = address
    /\ sharedSocketListeners' = sharedSocketListeners \cup {"messageHandler"}
    /\ UNCHANGED datagrams
    /\ wrapperUnchanged

setAllowedAddress(address) ==
    /\ wrapper # "none"
    /\ allowedAddress' = address
    /\ UNCHANGED <<wrapper, sharedSocketListeners, datagrams>>
    /\ wrapperUnchanged

close ==
    /\ wrapper # "none"
    /\ wrapper' = "closed"
    /\ sharedSocketListeners' = closeOp(sharedSocketListeners)
    /\ UNCHANGED <<allowedAddress, datagrams>>
    /\ wrapperUnchanged

\* the shared socket receives a datagram and emits 'message' to its listeners
sharedSocketMessage(rinfo) ==
    /\ Len(datagrams) < MaxDatagrams
    /\ datagrams' = Append(datagrams,
                           [rinfo |-> rinfo,
                            emitted |-> /\ "messageHandler" \in sharedSocketListeners
                                        /\ messageHandler(allowedAddress, rinfo)])
    /\ UNCHANGED <<wrapper, allowedAddress, sharedSocketListeners>>
    /\ wrapperUnchanged

NextWrapper ==
    \/ \E address \in WrapperAddresses : newSharedUDPSocketWrapper(address)
    \/ \E address \in WrapperAddresses : setAllowedAddress(address)
    \/ close
    \/ \E address \in WrapperAddresses : sharedSocketMessage([address |-> address])

SpecWrapper == Init /\ [][NextWrapper]_vars

\* C34: the wrapper emits 'message' for a datagram exactly when the
\* datagram's source address equals the allowedAddress of that moment and
\* close() has not been called; in particular after setAllowedAddress(a)
\* only datagrams from a are forwarded, and after close() none.
ForwardsOnlyAllowedWhileOpen ==
    /\ [][datagrams' # datagrams =>
             /\ Len(datagrams') = Len(datagrams) + 1
             /\ LET last == datagrams'[Len(datagrams')]
                IN  last.emitted = (/\ wrapper = "constructed"
                                    /\ last.rinfo.address = allowedAddress)]_vars
    /\ [][\A address \in WrapperAddresses :
             setAllowedAddress(address) => allowedAddress' = address]_vars
    /\ [](wrapper = "closed" => "messageHandler" \notin sharedSocketListeners)

\* a datagram from the first address was forwarded, then the address was
\* changed and a datagram from the first address dropped, then the wrapper
\* was closed and a datagram from the new address dropped
ForwardsOnlyAllowedWhileOpenWitness ==
    /\ wrapper = "closed"
    /\ allowedAddress = "10.0.0.10"
    /\ datagrams = <<[rinfo |-> [address |-> "10.0.0.1"], emitted |-> TRUE],
                     [rinfo |-> [address |-> "10.0.0.1"], emitted |-> FALSE],
                     [rinfo |-> [address |-> "10.0.0.10"], emitted |-> FALSE]>>

\* C35: addFeedback and updateFeedback with an OID that fails validation
\* throw and leave both maps of the tracker as they were, the watch the same
\* id held before included.
InvalidAddLeavesTrackerAlone ==
    [][\A id \in TrackerFeedbackIds, oid \in TrackerOids :
          /\ ~isAcceptedOid(trimOid(oid))
          /\ addFeedback(id, oid) \/ updateFeedback(id, oid)
          => /\ addFeedbackOp(trackerOf(oidToFeedbacks, feedbackToOid), id, oid).threw
             /\ UNCHANGED <<oidToFeedbacks, feedbackToOid>>]_vars

(***************************************************************************)
(* setOid with its three arguments, next to notifications that fill the    *)
(* cache and a feedback that watches the OID that is written.              *)
(***************************************************************************)
SetOids == {RAW_DOT_B, RAW_SPACE_DOT_A, RAW_BAD}
SetTypes == {"Integer", "OctetString"}
SetValues == {<<"4", "2">>, <<"d", "e", "v">>}
SetNotifications == {<<VB_A1>>, <<VB_B1>>}

NextSet ==
    \/ \E ok \in BOOLEAN : init(ok, << >>)
    \/ \E oid \in SetOids, type \in SetTypes, value \in SetValues :
          Len(promise) < MaxReads /\ setOid(oid, type, value)
    \/ \E task \in outstanding, error \in BOOLEAN : sendCallback(task, error)
    \/ onInterval
    \/ addFeedback("fb1", OID_A)
    \/ \E varbinds \in SetNotifications : processTrap(TRUE, varbinds)
    \/ throttledFeedbackIdCheck
    \/ debouncedUpdateDefinitions

SpecSet == Init /\ [][NextSet]_vars

\* the task of call id, wherever the queue holds it
taskOf(q, out, id) ==
    {q[i] : i \in {j \in 1..Len(q) : q[j].id = id}} \cup {task \in out : task.id = id}

\* C36: a setOid with a valid OID leads to one session.set call, made with
\* the one varbind {trimmed oid, type, value}; its promise is resolved only
\* by the session's callback without error; and neither the call nor the
\* callback changes the value cache or the dirty set.
SetSendsOneVarbind ==
    /\ [][\A oid \in SetOids, type \in SetTypes, value \in SetValues :
             setOid(oid, type, value) /\ isValidSnmpOid(trimOid(oid)) =>
                 LET id == Len(promise')
                     sent == [oid |-> trimOid(oid), type |-> type, value |-> value]
                 IN  /\ id = Len(promise) + 1
                     /\ promise'[id] \in {"pending", "rejected_nosession"}
                     /\ promise'[id] = "pending" =>
                            /\ Cardinality(taskOf(queue', outstanding', id)) = 1
                            /\ \A task \in taskOf(queue', outstanding', id) :
                                   task.kind = "set" /\ task.varbinds = <<sent>>
                     /\ UNCHANGED <<oidValues, feedbackIdsToCheck>>]_vars
    /\ [][\A task \in outstanding' \ outstanding :
             /\ promise'[task.id] = "pending"
             /\ \A other \in outstanding : other.id # task.id
             /\ IF task.id \in callIds
                THEN promise[task.id] = "pending" /\ \E i \in 1..Len(queue) : queue[i] = task
                ELSE task.id = Len(promise) + 1]_vars
    /\ [][\A id \in callIds :
             promise[id] # "resolved" /\ promise'[id] = "resolved" =>
                 /\ \E task \in outstanding : task.id = id /\ sendCallback(task, FALSE)
                 /\ UNCHANGED <<oidValues, feedbackIdsToCheck>>]_vars

\* the OID was given with a leading dot; the session got the
\* trimmed OID with the type and the value, called back without error and
\* the promise is resolved, next to a cache that a notification filled and a
\* feedback that is still marked
SetSendsOneVarbindWitness ==
    /\ Len(promise) = 2
    /\ promise[1] = "resolved"
    /\ dispatched # << >>
    /\ dispatched[1].kind = "set"
    /\ dispatched[1].id = 1
    /\ dispatched[1].varbinds =
           <<[oid |-> OID_B, type |-> "OctetString", value |-> <<"d", "e", "v">>]>>
    /\ OID_A \in DOMAIN oidValues
    /\ feedbackIdsToCheck = {"fb1"}
    /\ promise[2] = "rejected_invalid_oid"

\* C37: what trimOid returns starts with neither a dot nor white space and
\* does not end with white space, whatever the string it was given; white
\* space in front of a leading dot is such a string.
TrimmedHasNoDotNoSpace ==
    Len(results) >= 1 =>
        LET trimmed == results[1]
        IN  Len(trimmed) > 0 =>
                /\ Head(trimmed) \notin WhiteSpace \cup {"."}
                /\ trimmed[Len(trimmed)] \notin WhiteSpace

(***************************************************************************)
(* validateAndConvertVarbind applied to varbinds of the types Integer,     *)
(* Counter, Gauge and TimeTicks whose value is a decimal string (the       *)
(* values offered as Counter64), a hexadecimal literal around the powers   *)
(* of two, or a string that is neither.                                    *)
(***************************************************************************)
NumericTypes == {"Integer", "Counter", "Gauge", "TimeTicks"}

hexLiteral(negative, magnitude) ==
    (IF negative THEN <<"-">> ELSE << >>) \o <<"0", "x">> \o toHexString(magnitude)

NumericHexMagnitudes ==
    {powerOfTwo(k) : k \in 0..MaxBits}
        \cup {timesPlus(powerOfTwo(k), 1, 1) : k \in 0..MaxBits}
        \cup {<<0>>, <<2, 1, 4, 7, 4, 8, 3, 6, 4, 7>>, <<4, 2, 9, 4, 9, 6, 7, 2, 9, 5>>}

NumericOddInputs ==
    {<<"+", "5">>, <<"0", "0", "7">>, <<" ", "4", "2", " ">>, <<"4", "2", "a">>, << >>,
     <<"a", "b", "c">>, <<"0", "x">>, <<"-", "0">>, <<"1", "e", "3">>, <<"0", "X", "1", "F">>,
     <<"0", "x", "1", "G">>, <<"0", "4", "2", "9", "4", "9", "6", "7", "2", "9", "6">>,
     <<"+", "4", "2", "9", "4", "9", "6", "7", "2", "9", "6">>,
     <<"-", "0", "2", "1", "4", "7", "4", "8", "3", "6", "4", "9">>}

NumericInputs ==
    Counter64Inputs
        \cup {hexLiteral(negative, m) : negative \in BOOLEAN, m \in NumericHexMagnitudes}
        \cup NumericOddInputs

InitNumeric ==
    /\ InitState
    /\ argument \in {[oid |-> OID_B, type |-> type, value |-> value] :
                         type \in NumericTypes, value \in NumericInputs}
    /\ results = << >>

\* results[1] = what validateAndConvertVarbind does with the varbind
applyValidateAndConvertNumeric ==
    /\ results = << >>
    /\ results' = <<validateAndConvertVarbind(argument)>>
    /\ UNCHANGED <<phase, session, queueVars, cacheVars, observed, trackerVars, hostVars,
                   argument>>

NextNumeric == applyValidateAndConvertNumeric

SpecNumeric == InitNumeric /\ [][NextNumeric]_vars

\* the reading of the trimmed value of the varbind in hand: a decimal numeral
\* with an optional minus sign, a hexadecimal literal of its type, and the
\* integer either of them denotes
numericText == trim(rawOf(argument.value))
numericUnsigned ==
    IF numericText # << >> /\ Head(numericText) = "-" THEN Tail(numericText) ELSE numericText
numericIsDecimal == isDecimal(numericUnsigned)
numericIsHex == isHexLiteral(numericText, argument.type = "Integer")
numericIsNegative == numericText # << >> /\ Head(numericText) = "-"
numericDenotes ==
    IF numericIsHex
    THEN bigInt(numericIsNegative,
                hexToMagnitude(SubSeq(numericUnsigned, 3, Len(numericUnsigned)), <<0>>))
    ELSE bigInt(numericIsNegative, [i \in 1..Len(numericUnsigned) |-> hexValue(numericUnsigned[i])])
\* the numeral is the one an integer is written with: no leading zero, no -0
numericIsCanonical ==
    /\ numericIsDecimal
    /\ numericUnsigned[1] = "0" => numericText = <<"0">>
numericInRange(n) ==
    IF argument.type = "Integer"
    THEN bigIntLeq(INT32_MIN, n) /\ bigIntLeq(n, INT32_MAX)
    ELSE bigIntLeq(bigInt(FALSE, <<0>>), n) /\ bigIntLeq(n, UINT32_MAX)

\* C38: a numeric value is returned for Integer only within
\* [-2147483648, 2147483647] and for Counter, Gauge and TimeTicks only within
\* [0, 4294967295]; every decimal or 0x-prefixed hexadecimal input outside
\* the range is rejected with the out-of-range error, and a decimal input
\* that does not re-serialize to itself is rejected with the conversion error
NumericOutOfRangeIsRangeError ==
    results # << >> =>
        /\ ~results[1].threw => numericInRange(results[1].value.value)
        /\ (numericIsDecimal \/ numericIsHex) /\ ~numericInRange(numericDenotes) =>
                results[1].threw /\ results[1].error = "Value is out of range"
        /\ numericIsDecimal /\ ~numericIsCanonical =>
                results[1].threw /\ results[1].error = "Cannot convert to integer"

\* C38, amended: a numeric value is returned only within the range of the
\* type, and it is the integer the input denotes; a hexadecimal literal
\* outside the range is rejected with the out-of-range error; a decimal
\* numeral that is not the canonical one is rejected with the conversion
\* error, in range or not; a canonical decimal outside the range is rejected,
\* with the out-of-range error when its magnitude is at most 2^53 and with
\* one of the two errors beyond
NumericRejections ==
    results # << >> =>
        /\ ~results[1].threw =>
                /\ numericInRange(results[1].value.value)
                /\ numericIsHex \/ numericIsCanonical
                /\ results[1].value.value = numericDenotes
        /\ numericIsHex /\ ~numericInRange(numericDenotes) =>
                results[1].threw /\ results[1].error = "Value is out of range"
        /\ numericIsDecimal /\ ~numericIsCanonical =>
                results[1].threw /\ results[1].error = "Cannot convert to integer"
        /\ numericIsCanonical /\ ~numericInRange(numericDenotes) =>
                /\ results[1].threw
                /\ results[1].error \in {"Value is out of range", "Cannot convert to integer"}
                /\ magnitudeLeq(numericDenotes.magnitude, MaxSafeMagnitude) =>
                        results[1].error = "Value is out of range"

\* a canonical decimal just beyond the range of Counter is rejected with the
\* out-of-range error
NumericRejectionsWitness ==
    /\ results # << >>
    /\ argument.type = "Counter"
    /\ argument.value = <<"4", "2", "9", "4", "9", "6", "7", "2", "9", "6">>
    /\ results[1].threw
    /\ results[1].error = "Value is out of range"

(***************************************************************************)
(* generateEngineId.  The enterprise number is a magnitude; the eight      *)
(* bytes of randomBytes(8) are an input of the step.                       *)
(***************************************************************************)
\* ToUint32: the low 32 bits of a non-negative integer, as eight
\* hexadecimal digits
toUint32(magnitude) ==
    LET hex == padStart(toHexString(magnitude), 8, "0")
    IN  SubSeq(hex, Len(hex) - 7, Len(hex))

\* the four bytes written without forcing the top bit
orNothing(bits) == bits

\* (bits | 0x80000000) >>> 0 on eight hexadecimal digits
orTopBit(bits) ==
    <<HexChars[(IF hexValue(bits[1]) >= 8 THEN hexValue(bits[1]) ELSE hexValue(bits[1]) + 8) + 1]>>
        \o Tail(bits)

\* Buffer.alloc(4).writeUInt32BE(value) for a value of 32 bits
writeUInt32BE(bits) == bufferFromHex(bits)

generateEngineId(enterpriseOid, randomBytesSeq) ==
    LET enterpriseBytes == writeUInt32BE(orTopBit(toUint32(enterpriseOid)))
        formatByte == <<5>>
    IN  bufferToHex(enterpriseBytes \o formatByte \o randomBytesSeq)

\* the enterprise numbers offered: the default, the one of the tests, the
\* powers of two and their successors as far as they are Numbers
EnterpriseNumbers ==
    {<<6, 3, 8, 4, 9>>, <<1, 2, 3, 4, 5>>, <<0>>, INT32_MAX.magnitude, UINT32_MAX.magnitude}
        \cup {powerOfTwo(k) : k \in 0..MaxBits}
        \cup {m \in {timesPlus(powerOfTwo(k), 1, 1) : k \in 0..MaxBits} :
                 magnitudeLeq(m, MaxSafeMagnitude)}

\* some of the outcomes of randomBytes(8)
RandomBytesSeqs ==
    {[i \in 1..8 |-> b] : b \in {0, 5, 255}} \cup {<<1, 35, 69, 103, 137, 171, 205, 239>>}

InitEngineId ==
    /\ InitState
    /\ argument \in EnterpriseNumbers
    /\ results = << >>

\* results[1] = generateEngineId(argument)
applyGenerateEngineId(randomBytesSeq) ==
    /\ results = << >>
    /\ results' = <<generateEngineId(argument, randomBytesSeq)>>
    /\ UNCHANGED <<phase, session, queueVars, cacheVars, observed, trackerVars, hostVars,
                   argument>>

NextEngineId == \E randomBytesSeq \in RandomBytesSeqs : applyGenerateEngineId(randomBytesSeq)

SpecEngineId == InitEngineId /\ [][NextEngineId]_vars

\* the first four bytes of an engine id with the top bit masked off
maskedEnterprise(id) ==
    hexToMagnitude(<<HexChars[(hexValue(id[1]) % 8) + 1]>> \o SubSeq(id, 2, 8), <<0>>)

engineIdShape(id) ==
    /\ Len(id) = 26
    /\ \A i \in 1..26 : \E d \in 1..16 : HexChars[d] = id[i]
    /\ hexValue(id[1]) >= 8
    /\ SubSeq(id, 9, 10) = <<"0", "5">>

\* C39: for every enterprise number E, generateEngineId(E) is 26 lowercase
\* hexadecimal characters whose first four bytes have the top bit set and,
\* masked with 0x7fffffff, equal E, and whose fifth byte is 0x05
EngineIdEncodesEnterprise ==
    results # << >> =>
        /\ engineIdShape(results[1])
        /\ maskedEnterprise(results[1]) = argument

\* C39, amended: the shape holds for every E; the masked first four bytes
\* equal E for every E from 0 to 2^31 - 1, and differ from E beyond
EngineIdEncodesEnterpriseBelow31Bits ==
    results # << >> =>
        /\ engineIdShape(results[1])
        /\ maskedEnterprise(results[1]) = argument <=> magnitudeLeq(argument, INT32_MAX.magnitude)

\* the engine id of the default enterprise number 63849 = 0xf969
EngineIdEncodesEnterpriseWitness ==
    /\ argument = <<6, 3, 8, 4, 9>>
    /\ results # << >>
    /\ SubSeq(results[1], 1, 10) = <<"8", "0", "0", "0", "f", "9", "6", "9", "0", "5">>

====
